---- MODULE Spec2Model ----
(***************************************************************************)
(* Model of the BPMNCode front end: lexer, recursive-descent parser with   *)
(* its error-recovery engine, semantic validator, context validator and    *)
(* suggestion engine.                                                      *)
(*                                                                         *)
(* Conventions.  A text (token text, identifier, string) is a sequence of  *)
(* one-character strings.  A token is [kind, text, span]; in the parser    *)
(* the span is the token's start offset.  Cursor positions are 0-based as  *)
(* in the source, so the token at cursor p is tokens[p + 1].               *)
(***************************************************************************)
EXTENDS Integers, Sequences, FiniteSets, TLC

VARIABLES
    written,     \* what the source text holds (fixed by Init, read by the properties)
    tokens,      \* Parser.tokens
    position,    \* Parser.position
    pc,          \* where parse_with_recovery stands
    document,    \* the AstDocument under construction
    recovery,    \* ErrorRecovery.errors
    process,     \* the ProcessDeclaration under construction
    entered,     \* the cursor at the start of the running process-loop pass or call (history)
    iters,       \* number of loop iterations started so far (history)
    lastPath,    \* which attempt settled the last body iteration (history)
    outcome,     \* what a parser function called on its own returned, None before
    returnedDocuments, \* what the earlier parse_tokens calls on these tokens returned
    input,       \* Lexer.input
    offset,      \* how far the logos lexer has read
    lexed,       \* the token vector tokenize is filling
    line,        \* Lexer.line
    column,      \* Lexer.column
    lexPc,       \* where tokenize stands
    returnedTokens, \* what the earlier tokenize runs on this input returned
    valDocument, \* the document validate is given (by the last call, once one was made)
    valErrors,   \* SyntaxValidator.errors
    valProduced, \* the diagnostics pushed by the last validate call (history)
    valResult,   \* what the last validate call returned, None before the first call
    valPrevious, \* whether the call before the last one returned Ok (history)
    valCalls,    \* number of validate calls made on the validator (history)
    similarity,  \* jaro_winkler(target, k) in hundredths, for the one target of a run
    candidates,  \* suggest_similar's candidates
    max_suggestions, \* suggest_similar's max_suggestions
    suggested,   \* what suggest_similar or detect_keyword_typo returned, None before
    sugPc,       \* which suggestion function has returned
    ctxTokens,   \* the tokens validate_tokens is given
    ctxErrors,   \* ContextValidator.errors
    ctxResult,   \* what validate_tokens returned, None before the call
    ctxCalls     \* number of validate_tokens calls made (history)

parserVars ==
    <<written, tokens, position, pc, document, recovery, process, entered, iters, lastPath,
      outcome, returnedDocuments>>

lexerVars == <<input, offset, lexed, line, column, lexPc, returnedTokens>>

validatorVars == <<valDocument, valErrors, valProduced, valResult, valPrevious, valCalls>>

suggestVars == <<candidates, max_suggestions, suggested, sugPc>>

contextVars == <<ctxTokens, ctxErrors, ctxResult, ctxCalls>>

vars == <<parserVars, lexerVars, validatorVars, similarity, suggestVars, contextVars>>

\* the state of the components a parser action does not touch
besideParser == <<lexerVars, validatorVars, similarity, suggestVars, contextVars>>

\* the state of the components a lexer action does not touch
besideLexer == <<parserVars, validatorVars, similarity, suggestVars, contextVars>>

\* the state of the components a validator action does not touch
besideValidator == <<parserVars, lexerVars, similarity, suggestVars, contextVars>>

\* the state of the components a suggestion function does not touch
besideSuggest == <<parserVars, lexerVars, validatorVars, similarity, contextVars>>

\* the state of the components a context-validator action does not touch
besideContext == <<parserVars, lexerVars, validatorVars, similarity, suggestVars>>

(***************************************************************************)
(* Texts                                                                   *)
(***************************************************************************)
T_process == <<"p","r","o","c","e","s","s">>
T_import  == <<"i","m","p","o","r","t">>
T_from    == <<"f","r","o","m">>
T_as      == <<"a","s">>
T_start   == <<"s","t","a","r","t">>
T_end     == <<"e","n","d">>
T_task    == <<"t","a","s","k">>
T_user    == <<"u","s","e","r">>
T_service == <<"s","e","r","v","i","c","e">>
T_script  == <<"s","c","r","i","p","t">>
T_xor     == <<"x","o","r">>
T_and     == <<"a","n","d">>
T_true    == <<"t","r","u","e">>
T_false   == <<"f","a","l","s","e">>
T_message == <<"m","e","s","s","a","g","e">>
T_timer   == <<"t","i","m","e","r">>
T_error   == <<"e","r","r","o","r">>
T_signal  == <<"s","i","g","n","a","l">>
T_terminate == <<"t","e","r","m","i","n","a","t","e">>
T_subprocess == <<"s","u","b","p","r","o","c","e","s","s">>
T_pool    == <<"p","o","o","l">>
T_lane    == <<"l","a","n","e">>
T_group   == <<"g","r","o","u","p">>
T_note    == <<"n","o","t","e">>
T_call    == <<"c","a","l","l">>
T_event   == <<"e","v","e","n","t">>

Digits == {"0","1","2","3","4","5","6","7","8","9"}

EndsWith(text, ch) == Len(text) > 0 /\ text[Len(text)] = ch

EndsWith2(text, c1, c2) ==
    Len(text) > 1 /\ text[Len(text) - 1] = c1 /\ text[Len(text)] = c2

StartsWith(text, ch) == Len(text) > 0 /\ text[1] = ch

\* str::parse::<f64> on a text of the shape the NumberLiteral rule produces
ParsesAsF64(text) ==
    /\ Len(text) > 0
    /\ \A i \in 1..Len(text) : text[i] \in Digits \cup {"."}

(***************************************************************************)
(* Tokens and cursor primitives                                            *)
(***************************************************************************)
Tk(kind, text) == [kind |-> kind, text |-> text]

\* attaches to each token its span (start offset = index in the stream)
WithSpans(ts) == [i \in 1..Len(ts) |-> [kind |-> ts[i].kind, text |-> ts[i].text, span |-> i - 1]]

EofToken == [kind |-> "Eof", text |-> <<>>, span |-> 0]

current_token(ts, p) == IF p < Len(ts) THEN ts[p + 1] ELSE EofToken

current_span(ts, p) == current_token(ts, p).span

check_token(ts, p, kind) == current_token(ts, p).kind = kind

is_at_end(ts, p) == p >= Len(ts) \/ current_token(ts, p).kind = "Eof"

advance(ts, p) == IF is_at_end(ts, p) THEN p ELSE p + 1

TriviaKinds == {"Newline", "CarriageReturnNewline", "LineComment", "BlockComment"}

RECURSIVE skip_whitespace_and_comments(_, _)
skip_whitespace_and_comments(ts, p) ==
    IF current_token(ts, p).kind \in TriviaKinds /\ ~is_at_end(ts, p)
    THEN skip_whitespace_and_comments(ts, advance(ts, p))
    ELSE p

Ok(p, v) == [ok |-> TRUE, pos |-> p, val |-> v]

Err(p, e) == [ok |-> FALSE, pos |-> p, err |-> e]

UnexpectedToken(ts, p, found, expected) ==
    [kind |-> "UnexpectedToken", found |-> found, expected |-> expected,
     span |-> current_span(ts, p)]

InvalidAttributeValue(ts, p, value) ==
    [kind |-> "InvalidAttributeValue", value |-> value, span |-> current_span(ts, p)]

consume_token(ts, p, kind) ==
    IF check_token(ts, p, kind)
    THEN Ok(advance(ts, p), current_token(ts, advance(ts, p)))
    ELSE Err(p, UnexpectedToken(ts, p, current_token(ts, p).text, kind))

parse_identifier(ts, p) ==
    IF ~check_token(ts, p, "Identifier")
    THEN Err(p, UnexpectedToken(ts, p, current_token(ts, p).text, "identifier"))
    ELSE Ok(advance(ts, p), current_token(ts, p).text)

(***************************************************************************)
(* String literals: strip the quotes, then the four replace passes         *)
(***************************************************************************)
RECURSIVE ReplacePair(_, _, _, _)
\* str::replace of the two-character pattern c1 c2 by the character r
ReplacePair(s, c1, c2, r) ==
    IF Len(s) = 0 THEN <<>>
    ELSE IF Len(s) >= 2 /\ s[1] = c1 /\ s[2] = c2
         THEN <<r>> \o ReplacePair(SubSeq(s, 3, Len(s)), c1, c2, r)
         ELSE <<s[1]>> \o ReplacePair(SubSeq(s, 2, Len(s)), c1, c2, r)

Unescape(literal) ==
    IF Len(literal) >= 2 /\ StartsWith(literal, "\"") /\ EndsWith(literal, "\"")
    THEN LET inner == SubSeq(literal, 2, Len(literal) - 1)
             a == ReplacePair(inner, "\\", "\"", "\"")
             b == ReplacePair(a, "\\", "\\", "\\")
             c == ReplacePair(b, "\\", "n", "\n")
         IN  ReplacePair(c, "\\", "t", "\t")
    ELSE literal

parse_string_literal(ts, p) ==
    IF ~check_token(ts, p, "StringLiteral")
    THEN Err(p, UnexpectedToken(ts, p, current_token(ts, p).text, "string literal"))
    ELSE Ok(advance(ts, p), Unescape(current_token(ts, p).text))

(***************************************************************************)
(* Results.  A parse function yields Ok(cursor, value) or Err(cursor,      *)
(* error); the cursor of an Err is where the failed call left              *)
(* Parser.position.  The operators below thread a result through the next  *)
(* step the way the source's `?` does: a failed result is passed on as is. *)
(***************************************************************************)
Some(x) == <<x>>

None == <<>>

EmptyMap == [k \in {} |-> {}]

Insert(m, k, v) == (k :> v) @@ m

\* r's value (a record under construction) with field f set from result x
With(r, f, x) ==
    IF ~r.ok THEN r
    ELSE IF ~x.ok THEN x
    ELSE Ok(x.pos, (f :> x.val) @@ r.val)

\* r's value kept, the cursor taken from x
Keep(r, x) == IF ~r.ok THEN r ELSE IF ~x.ok THEN x ELSE Ok(x.pos, r.val)

SomeOf(x) == IF x.ok THEN Ok(x.pos, Some(x.val)) ELSE x

Begin(ts, p, rec) == Ok(advance(ts, p), rec)

ThenToken(ts, r, kind) == Keep(r, consume_token(ts, r.pos, kind))

ThenIdentifier(ts, r, f) == With(r, f, parse_identifier(ts, r.pos))

ThenString(ts, r, f) == With(r, f, parse_string_literal(ts, r.pos))

(***************************************************************************)
(* Attributes                                                              *)
(***************************************************************************)
RECURSIVE DecimalOf(_)
\* the number denoted by a text of decimal digits
DecimalOf(ds) ==
    IF Len(ds) = 0 THEN 0
    ELSE 10 * DecimalOf(SubSeq(ds, 1, Len(ds) - 1))
         + (CHOOSE d \in 0..9 : ToString(d) = ds[Len(ds)])

RECURSIVE StripZeros(_)
StripZeros(ds) ==
    IF Len(ds) > 0 /\ ds[Len(ds)] = "0" THEN StripZeros(SubSeq(ds, 1, Len(ds) - 1)) ELSE ds

\* the f64 a parseable text denotes, as whole part and fraction digits
F64Of(text) ==
    LET dots == {i \in 1..Len(text) : text[i] = "."}
    IN  IF dots = {} THEN [whole |-> DecimalOf(text), frac |-> <<>>]
        ELSE LET d == CHOOSE i \in dots : TRUE
             IN  [whole |-> DecimalOf(SubSeq(text, 1, d - 1)),
                  frac |-> StripZeros(SubSeq(text, d + 1, Len(text)))]

IsDurationText(text) ==
    \/ EndsWith(text, "m")
    \/ EndsWith(text, "s")
    \/ EndsWith2(text, "m", "s")
    \/ EndsWith(text, "h")

\* the NumberLiteral arm of parse_attribute_value, the cursor already advanced to p
NumberValue(ts, p, text) ==
    IF IsDurationText(text) THEN Ok(p, [type |-> "Duration", text |-> text])
    ELSE IF ParsesAsF64(text) THEN Ok(p, [type |-> "Number", num |-> F64Of(text)])
    ELSE Err(p, InvalidAttributeValue(ts, p, text))

IdentifierValue_Verbatim(text) == [type |-> "String", text |-> text]

IdentifierValue(text) ==
    IF text = T_true THEN [type |-> "Boolean", flag |-> TRUE]
    ELSE IF text = T_false THEN [type |-> "Boolean", flag |-> FALSE]
    ELSE [type |-> "String", text |-> text]

StringValue(x) == IF x.ok THEN Ok(x.pos, [type |-> "String", text |-> x.val]) ELSE x

parse_attribute_value(ts, p) ==
    LET tok == current_token(ts, p) IN
    CASE tok.kind = "StringLiteral" -> StringValue(parse_string_literal(ts, p))
      [] tok.kind = "NumberLiteral" -> NumberValue(ts, advance(ts, p), tok.text)
      [] tok.kind = "Identifier" -> Ok(advance(ts, p), IdentifierValue(tok.text))
      [] OTHER ->
            Err(p, UnexpectedToken(ts, p, tok.text, "attribute value (string, number, boolean)"))

RECURSIVE AtAttributes(_, _, _)
RECURSIVE AtKey(_, _, _)
RECURSIVE AtValue(_, _, _, _)

\* the `@key value` loop of parse_attributes
AtAttributes(ts, p, attrs) ==
    IF ~check_token(ts, p, "At") THEN Ok(p, attrs)
    ELSE AtKey(ts, attrs, parse_identifier(ts, advance(ts, p)))

AtKey(ts, attrs, key) ==
    IF ~key.ok THEN key
    ELSE IF current_token(ts, key.pos).kind \in {"StringLiteral", "NumberLiteral", "Identifier"}
         THEN AtValue(ts, attrs, key, parse_attribute_value(ts, key.pos))
         ELSE AtAttributes(ts, key.pos, Insert(attrs, key.val, [type |-> "Boolean", flag |-> TRUE]))

AtValue(ts, attrs, key, value) ==
    IF ~value.ok THEN value
    ELSE AtAttributes(ts, value.pos, Insert(attrs, key.val, value.val))

\* what follows a key=value pair inside the parentheses: a comma continues the
\* list, `)` lets the loop condition end it, anything else breaks out
AfterPair(ts, p) ==
    IF check_token(ts, p, "Comma")
    THEN [again |-> TRUE, pos |-> skip_whitespace_and_comments(ts, advance(ts, p))]
    ELSE IF ~check_token(ts, p, "RightParen")
         THEN [again |-> FALSE, pos |-> p]
         ELSE [again |-> TRUE, pos |-> p]

RECURSIVE ParenAttributes(_, _, _)
RECURSIVE ParenKey(_, _, _)
RECURSIVE ParenValue(_, _, _, _)
RECURSIVE ParenNext(_, _, _)

\* the `(key=value, ...)` loop of parse_attributes, after the `(`
ParenAttributes(ts, p, attrs) ==
    IF check_token(ts, p, "RightParen") \/ is_at_end(ts, p) THEN Ok(p, attrs)
    ELSE ParenKey(ts, attrs, parse_identifier(ts, p))

ParenKey(ts, attrs, key) ==
    IF ~key.ok THEN key
    ELSE IF ~check_token(ts, key.pos, "Equals")
         THEN Err(key.pos, UnexpectedToken(ts, key.pos, current_token(ts, key.pos).text, "="))
         ELSE ParenValue(ts, attrs, key, parse_attribute_value(ts, advance(ts, key.pos)))

ParenValue(ts, attrs, key, value) ==
    IF ~value.ok THEN value
    ELSE ParenNext(ts, Insert(attrs, key.val, value.val),
                   AfterPair(ts, skip_whitespace_and_comments(ts, value.pos)))

ParenNext(ts, attrs, next) ==
    IF next.again THEN ParenAttributes(ts, next.pos, attrs) ELSE Ok(next.pos, attrs)

\* the closing parenthesis after the loop
CloseParen(ts, body) ==
    IF ~body.ok THEN body
    ELSE IF check_token(ts, body.pos, "RightParen") THEN Ok(advance(ts, body.pos), body.val)
    ELSE Err(body.pos, UnexpectedToken(ts, body.pos, current_token(ts, body.pos).text, ")"))

ParenPart(ts, pre) ==
    IF ~pre.ok THEN pre
    ELSE IF ~check_token(ts, pre.pos, "LeftParen") THEN pre
    ELSE CloseParen(ts, ParenAttributes(ts,
                            skip_whitespace_and_comments(ts, advance(ts, pre.pos)), pre.val))

parse_attributes(ts, p) == ParenPart(ts, AtAttributes(ts, p, EmptyMap))

ThenAttributes(ts, r, f) == With(r, f, parse_attributes(ts, r.pos))

(***************************************************************************)
(* Event types                                                             *)
(***************************************************************************)
EventType(name, arg) == [name |-> name, arg |-> arg]

Carrying(name, x) == IF x.ok THEN Ok(x.pos, Some(EventType(name, x.val))) ELSE x

\* the optional string payload of a message, error or signal event type
OptionalString(ts, p, name) ==
    IF check_token(ts, p, "StringLiteral")
    THEN Carrying(name, parse_string_literal(ts, p))
    ELSE Ok(p, Some(EventType(name, <<>>)))

TimerDuration(ts, p) ==
    IF current_token(ts, p).kind \in {"NumberLiteral", "Identifier"}
    THEN Ok(advance(ts, p), Some(EventType("Timer", current_token(ts, p).text)))
    ELSE Ok(p, Some(EventType("Timer", <<>>)))

\* the match on the event type name, the cursor already past the name
EventTypeNamed(ts, p, name) ==
    CASE name = T_message -> OptionalString(ts, p, "Message")
      [] name = T_timer -> TimerDuration(ts, p)
      [] name = T_error -> OptionalString(ts, p, "Error")
      [] name = T_signal -> OptionalString(ts, p, "Signal")
      [] name = T_terminate -> Ok(p, Some(EventType("Terminate", <<>>)))
      [] OTHER -> Err(p, UnexpectedToken(ts, p, name,
                            "event type (message, timer, error, signal, terminate)"))

parse_event_type(ts, p) ==
    IF ~check_token(ts, p, "At") THEN Ok(p, None)
    ELSE IF ~check_token(ts, advance(ts, p), "Identifier")
         THEN Err(advance(ts, p),
                  UnexpectedToken(ts, advance(ts, p), current_token(ts, advance(ts, p)).text,
                                  "event type identifier"))
         ELSE EventTypeNamed(ts, advance(ts, advance(ts, p)), current_token(ts, advance(ts, p)).text)

ThenEventType(ts, r, f) == With(r, f, parse_event_type(ts, r.pos))

(***************************************************************************)
(* Conditions, gateway branches, flows                                     *)
(***************************************************************************)
MaxConditionTokens == 50

NoSpaceTexts == {<<"=">>, <<"!">>, <<"<">>, <<">">>, <<"&">>, <<"|">>}

\* one token appended to the condition text built so far
AppendCondition(cond, text) ==
    IF Len(cond) > 0 /\ text \notin NoSpaceTexts THEN cond \o <<" ">> \o text ELSE cond \o text

RECURSIVE ConditionLoop(_, _, _, _)
ConditionLoop(ts, p, cond, count) ==
    IF ~check_token(ts, p, "RightBracket") /\ ~is_at_end(ts, p) /\ count < MaxConditionTokens
    THEN ConditionLoop(ts, advance(ts, p),
                       AppendCondition(cond, current_token(ts, p).text), count + 1)
    ELSE Ok(p, cond)

NonEmptyCondition(ts, r) ==
    IF Len(r.val) = 0
    THEN Err(r.pos, UnexpectedToken(ts, r.pos, <<"]">>, "condition expression"))
    ELSE r

parse_condition_expression(ts, p) == NonEmptyCondition(ts, ConditionLoop(ts, p, <<>>, 0))

\* `[` cond `]`, the cursor on the opening bracket
BracketCondition(ts, p) ==
    ThenToken(ts, parse_condition_expression(ts, advance(ts, p)), "RightBracket")

\* the head of a gateway branch: its condition and whether it is the default
BranchHead(ts, p) ==
    IF check_token(ts, p, "LeftBracket")
    THEN With(Ok(p, [is_default |-> FALSE, span |-> current_span(ts, p)]),
              "condition", SomeOf(BracketCondition(ts, p)))
    ELSE IF check_token(ts, p, "DefaultFlow")
    THEN Ok(advance(ts, p), [condition |-> None, is_default |-> TRUE, span |-> current_span(ts, p)])
    ELSE With(Ok(p, [is_default |-> FALSE, span |-> current_span(ts, p)]),
              "condition", SomeOf(parse_identifier(ts, p)))

\* the arrow every branch needs before its target
BranchArrow(ts, r) ==
    IF ~r.ok THEN r
    ELSE IF ~check_token(ts, r.pos, "SequenceFlow") /\ ~check_token(ts, r.pos, "DefaultFlow")
    THEN Err(r.pos, UnexpectedToken(ts, r.pos, current_token(ts, r.pos).text, "-> or =>"))
    ELSE Ok(advance(ts, r.pos), r.val)

RECURSIVE BranchLoop(_, _, _)
RECURSIVE BranchNext(_, _, _)

BranchLoop(ts, p, branches) ==
    IF check_token(ts, p, "RightBrace") \/ is_at_end(ts, p) THEN Ok(p, branches)
    ELSE BranchNext(ts, branches, ThenIdentifier(ts, BranchArrow(ts, BranchHead(ts, p)), "target"))

BranchNext(ts, branches, b) ==
    IF ~b.ok THEN b
    ELSE BranchLoop(ts, skip_whitespace_and_comments(ts, b.pos), Append(branches, b.val))

parse_gateway_branches(ts, p) == BranchLoop(ts, skip_whitespace_and_comments(ts, p), <<>>)

FlowArrows == {"SequenceFlow", "MessageFlow", "DefaultFlow", "Association"}

FlowTypeOf(kind) ==
    CASE kind = "SequenceFlow" -> "Sequence"
      [] kind = "MessageFlow" -> "Message"
      [] kind = "DefaultFlow" -> "Default"
      [] kind = "Association" -> "Association"

FlowArrow(ts, r) ==
    IF ~r.ok THEN r
    ELSE IF current_token(ts, r.pos).kind \notin FlowArrows
    THEN Err(r.pos, UnexpectedToken(ts, r.pos, current_token(ts, r.pos).text,
                                    "flow arrow (-> --> => ..>)"))
    ELSE Ok(advance(ts, r.pos),
            ("flow_type" :> FlowTypeOf(current_token(ts, r.pos).kind)) @@ r.val)

\* the target of a flow: the keyword `end` or an identifier
FlowTarget(ts, p) ==
    IF check_token(ts, p, "End") THEN Ok(advance(ts, p), T_end) ELSE parse_identifier(ts, p)

FlowTo(ts, r) == With(r, "to", FlowTarget(ts, r.pos))

FlowCondition(ts, r) ==
    IF ~r.ok THEN r
    ELSE IF check_token(ts, r.pos, "LeftBracket")
    THEN With(r, "condition", SomeOf(BracketCondition(ts, r.pos)))
    ELSE Ok(r.pos, ("condition" :> None) @@ r.val)

parse_flow(ts, p) ==
    FlowCondition(ts, FlowTo(ts, FlowArrow(ts,
        ThenIdentifier(ts, Ok(p, [span |-> current_span(ts, p)]), "from"))))

(***************************************************************************)
(* Process elements                                                        *)
(***************************************************************************)
TaskKeywords == {"Task", "User", "Service", "Script"}

TaskTypeOf(kind) ==
    CASE kind = "Task" -> "Generic"
      [] kind = "User" -> "User"
      [] kind = "Service" -> "Service"
      [] kind = "Script" -> "Script"

GatewayTypeOf(kind) ==
    CASE kind = "Xor" -> "Exclusive"
      [] kind = "And" -> "Parallel"

\* the Start and End arms
ParseEvent(ts, p, type) ==
    ThenAttributes(ts,
        ThenEventType(ts, Begin(ts, p, [type |-> type, id |-> None, span |-> current_span(ts, p)]),
                      "event_type"),
        "attributes")

\* the Task, User, Service and Script arms
ParseTask(ts, p) ==
    ThenAttributes(ts,
        ThenIdentifier(ts,
            Begin(ts, p, [type |-> "Task", task_type |-> TaskTypeOf(current_token(ts, p).kind),
                          span |-> current_span(ts, p)]),
            "id"),
        "attributes")

Qualified(id, name) == IF name.ok THEN Ok(name.pos, id \o <<":", ":">> \o name.val) ELSE name

CalledElement(ts, r) ==
    IF ~r.ok THEN r
    ELSE IF check_token(ts, r.pos, "Namespace")
    THEN With(r, "called_element", Qualified(r.val.id, parse_identifier(ts, advance(ts, r.pos))))
    ELSE Ok(r.pos, ("called_element" :> r.val.id) @@ r.val)

ParseCall(ts, p) ==
    ThenAttributes(ts,
        CalledElement(ts,
            ThenIdentifier(ts, Begin(ts, p, [type |-> "CallActivity", span |-> current_span(ts, p)]),
                           "id")),
        "attributes")

\* the optional identifier of a gateway
GatewayId(ts, r) ==
    IF check_token(ts, r.pos, "Identifier")
    THEN With(r, "id", SomeOf(parse_identifier(ts, r.pos)))
    ELSE Ok(r.pos, ("id" :> None) @@ r.val)

\* the optional `?`, which only the Xor arm accepts
GatewayQuestion(ts, r, kind) ==
    IF r.ok /\ kind = "Xor" /\ check_token(ts, r.pos, "Question")
    THEN Ok(advance(ts, r.pos), r.val)
    ELSE r

ThenBranches(ts, r) == With(r, "branches", parse_gateway_branches(ts, r.pos))

\* the Xor and And arms
ParseGateway(ts, p) ==
    ThenToken(ts,
        ThenBranches(ts,
            ThenToken(ts,
                GatewayQuestion(ts,
                    GatewayId(ts, Begin(ts, p,
                        [type |-> "Gateway",
                         gateway_type |-> GatewayTypeOf(current_token(ts, p).kind),
                         span |-> current_span(ts, p)])),
                    current_token(ts, p).kind),
                "LeftBrace")),
        "RightBrace")

\* an intermediate event requires the event type parse_event_type may omit
RequiredEventType(ts, r) ==
    IF ~r.ok THEN r
    ELSE IF r.val.event_type = None
    THEN Err(r.pos, UnexpectedToken(ts, r.pos, current_token(ts, r.pos).text,
                                    "event type (timer, message, etc.)"))
    ELSE Ok(r.pos, ("event_type" :> r.val.event_type[1]) @@ r.val)

Payload(ts, r) ==
    IF ~r.ok THEN r
    ELSE IF current_token(ts, r.pos).kind \in {"StringLiteral", "NumberLiteral", "Identifier"}
    THEN Ok(advance(ts, r.pos), ("payload" :> Some(current_token(ts, r.pos).text)) @@ r.val)
    ELSE Ok(r.pos, ("payload" :> None) @@ r.val)

\* the Event arm
ParseIntermediateEvent(ts, p) ==
    ThenAttributes(ts,
        Payload(ts,
            RequiredEventType(ts,
                ThenEventType(ts,
                    Begin(ts, p, [type |-> "IntermediateEvent", id |-> None,
                                  span |-> current_span(ts, p)]),
                    "event_type"))),
        "attributes")

\* the Note arm
ParseNote(ts, p) ==
    ThenString(ts, Begin(ts, p, [type |-> "Annotation", span |-> current_span(ts, p)]), "text")

(***************************************************************************)
(* Containers.  The loops over a subprocess, pool, group or lane body do   *)
(* not rewind the cursor after a failed attempt: the flow attempt starts   *)
(* where the element attempt stopped.                                      *)
(***************************************************************************)
RECURSIVE parse_process_element(_, _)
RECURSIVE ContainerLoop(_, _, _, _, _)
RECURSIVE ContainerLane(_, _, _, _)
RECURSIVE ContainerElement(_, _, _, _, _)
RECURSIVE ContainerFlow(_, _, _, _)
RECURSIVE parse_lane(_, _)

\* the lists a body loop fills
EmptyBody(withLanes, withFlows) ==
    IF withLanes THEN [lanes |-> <<>>, elements |-> <<>>, flows |-> <<>>]
    ELSE IF withFlows THEN [elements |-> <<>>, flows |-> <<>>]
    ELSE [elements |-> <<>>]

ContainerLoop(ts, p, body, withLanes, withFlows) ==
    IF check_token(ts, p, "RightBrace") \/ is_at_end(ts, p) THEN Ok(p, body)
    ELSE IF withLanes /\ check_token(ts, p, "Lane")
    THEN ContainerLane(ts, body, withFlows, parse_lane(ts, p))
    ELSE ContainerElement(ts, body, withLanes, withFlows, parse_process_element(ts, p))

ContainerLane(ts, body, withFlows, lane) ==
    IF ~lane.ok THEN lane
    ELSE ContainerLoop(ts, skip_whitespace_and_comments(ts, lane.pos),
                       [body EXCEPT !.lanes = Append(@, lane.val)], TRUE, withFlows)

ContainerElement(ts, body, withLanes, withFlows, element) ==
    IF element.ok
    THEN ContainerLoop(ts, skip_whitespace_and_comments(ts, element.pos),
                       [body EXCEPT !.elements = Append(@, element.val)], withLanes, withFlows)
    ELSE IF withFlows
    THEN ContainerFlow(ts, body, withLanes, parse_flow(ts, element.pos))
    ELSE ContainerLoop(ts, skip_whitespace_and_comments(ts, advance(ts, element.pos)),
                       body, withLanes, withFlows)

ContainerFlow(ts, body, withLanes, flow) ==
    IF flow.ok
    THEN ContainerLoop(ts, skip_whitespace_and_comments(ts, flow.pos),
                       [body EXCEPT !.flows = Append(@, flow.val)], withLanes, TRUE)
    ELSE ContainerLoop(ts, skip_whitespace_and_comments(ts, advance(ts, flow.pos)),
                       body, withLanes, TRUE)

\* the body's lists joined to the record under construction
Filled(r, body) == IF body.ok THEN Ok(body.pos, body.val @@ r.val) ELSE body

ThenBody(ts, r, withLanes, withFlows) ==
    IF ~r.ok THEN r
    ELSE Filled(r, ContainerLoop(ts, skip_whitespace_and_comments(ts, r.pos),
                                 EmptyBody(withLanes, withFlows), withLanes, withFlows))

parse_lane(ts, p) ==
    ThenToken(ts,
        ThenBody(ts,
            ThenToken(ts,
                ThenIdentifier(ts,
                    ThenToken(ts, Ok(p, [span |-> current_span(ts, p)]), "Lane"),
                    "name"),
                "LeftBrace"),
            FALSE, FALSE),
        "RightBrace")

\* the Subprocess arm
ParseSubprocess(ts, p) ==
    ThenToken(ts,
        ThenBody(ts,
            ThenToken(ts,
                ThenAttributes(ts,
                    ThenIdentifier(ts,
                        Begin(ts, p, [type |-> "Subprocess", span |-> current_span(ts, p)]),
                        "id"),
                    "attributes"),
                "LeftBrace"),
            FALSE, TRUE),
        "RightBrace")

\* the Pool arm
ParsePool(ts, p) ==
    ThenToken(ts,
        ThenBody(ts,
            ThenToken(ts,
                ThenIdentifier(ts, Begin(ts, p, [type |-> "Pool", span |-> current_span(ts, p)]),
                               "name"),
                "LeftBrace"),
            TRUE, TRUE),
        "RightBrace")

\* the Group arm
ParseGroup(ts, p) ==
    ThenToken(ts,
        ThenBody(ts,
            ThenToken(ts,
                ThenString(ts, Begin(ts, p, [type |-> "Group", span |-> current_span(ts, p)]),
                           "label"),
                "LeftBrace"),
            FALSE, FALSE),
        "RightBrace")

parse_process_element(ts, p) ==
    LET kind == current_token(ts, p).kind IN
    CASE kind = "Start" -> ParseEvent(ts, p, "StartEvent")
      [] kind = "End" -> ParseEvent(ts, p, "EndEvent")
      [] kind \in TaskKeywords -> ParseTask(ts, p)
      [] kind = "Call" -> ParseCall(ts, p)
      [] kind \in {"Xor", "And"} -> ParseGateway(ts, p)
      [] kind = "Event" -> ParseIntermediateEvent(ts, p)
      [] kind = "Subprocess" -> ParseSubprocess(ts, p)
      [] kind = "Pool" -> ParsePool(ts, p)
      [] kind = "Group" -> ParseGroup(ts, p)
      [] kind = "Note" -> ParseNote(ts, p)
      [] OTHER -> Err(p, UnexpectedToken(ts, p, current_token(ts, p).text, "process element"))

(***************************************************************************)
(* Imports                                                                 *)
(***************************************************************************)
ImportAlias(ts, r) ==
    IF ~r.ok THEN r
    ELSE IF check_token(ts, r.pos, "As")
    THEN With(r, "alias", SomeOf(parse_identifier(ts, advance(ts, r.pos))))
    ELSE Ok(r.pos, ("alias" :> None) @@ r.val)

RECURSIVE ImportItems(_, _, _)
RECURSIVE ImportSeparator(_, _, _)

\* the item loop of the `import a, b from "path"` form
ImportItems(ts, p, items) ==
    IF check_token(ts, p, "From") \/ is_at_end(ts, p) THEN Ok(p, items)
    ELSE IF check_token(ts, p, "Identifier")
    THEN ImportSeparator(ts, advance(ts, p), Append(items, current_token(ts, p).text))
    ELSE ImportSeparator(ts, advance(ts, p), items)

ImportSeparator(ts, p, items) ==
    IF check_token(ts, p, "Comma") THEN ImportItems(ts, advance(ts, p), items)
    ELSE IF ~check_token(ts, p, "From") THEN Ok(p, items)
    ELSE ImportItems(ts, p, items)

ItemsOf(r, items) == Ok(items.pos, ("items" :> items.val) @@ r.val)

parse_import(ts, p) ==
    IF ~check_token(ts, p, "Import") THEN consume_token(ts, p, "Import")
    ELSE IF check_token(ts, advance(ts, p), "StringLiteral")
    THEN ImportAlias(ts, ThenString(ts, Begin(ts, p, [items |-> <<>>, span |-> current_span(ts, p)]),
                                    "path"))
    ELSE ThenString(ts,
            ThenToken(ts,
                ItemsOf(Ok(p, [alias |-> None, span |-> current_span(ts, p)]),
                        ImportItems(ts, advance(ts, p), <<>>)),
                "From"),
            "path")

(***************************************************************************)
(* Error recovery (ErrorRecovery).  The functions index the token slice    *)
(* directly; a result carries the diagnostics the call pushed.             *)
(***************************************************************************)
Msg(text, arg) == [text |-> text, arg |-> arg]

ParseError(message, span, severity) ==
    [message |-> message, span |-> span, severity |-> severity]

RECURSIVE DigitsOf(_)
\* the decimal text of a natural number, as format!("{n}") writes it
DigitsOf(n) == IF n < 10 THEN <<ToString(n)>> ELSE DigitsOf(n \div 10) \o <<ToString(n % 10)>>

TaskPlaceholder(n) == <<"T", "a", "s", "k", "_">> \o DigitsOf(n)

TargetPlaceholder(n) ==
    <<"U", "n", "k", "n", "o", "w", "n", "T", "a", "r", "g", "e", "t", "_">> \o DigitsOf(n)

\* tokens[i]
At(ts, i) == ts[i + 1]

KindAt(ts, i, kinds) == i < Len(ts) /\ At(ts, i).kind \in kinds

Recovered(v, p, errs) == [some |-> TRUE, val |-> v, pos |-> p, errs |-> errs]

NotRecovered(errs) == [some |-> FALSE, errs |-> errs]

AttributeStoppers ==
    {"At", "LeftParen", "Start", "End", "Task", "User", "Service", "Script", "Xor", "And",
     "RightBrace"}

RECURSIVE SkipAtRun(_, _)
SkipAtRun(ts, p) ==
    IF p < Len(ts) /\ At(ts, p).kind \notin AttributeStoppers THEN SkipAtRun(ts, p + 1) ELSE p

RECURSIVE SkipAtRuns(_, _)
SkipAtRuns(ts, p) == IF KindAt(ts, p, {"At"}) THEN SkipAtRuns(ts, SkipAtRun(ts, p + 1)) ELSE p

RECURSIVE SkipParens(_, _, _)
SkipParens(ts, p, paren_count) ==
    IF p < Len(ts) /\ paren_count > 0
    THEN SkipParens(ts, p + 1,
                    CASE At(ts, p).kind = "LeftParen" -> paren_count + 1
                      [] At(ts, p).kind = "RightParen" -> paren_count - 1
                      [] OTHER -> paren_count)
    ELSE p

SkipParenGroup(ts, p) == IF KindAt(ts, p, {"LeftParen"}) THEN SkipParens(ts, p + 1, 1) ELSE p

\* mutant of skip_malformed_attributes: the parenthesised group is left standing
skip_malformed_attributes_Runs(ts, p) == SkipAtRuns(ts, p)

skip_malformed_attributes(ts, p) == SkipParenGroup(ts, SkipAtRuns(ts, p))

recover_task(ts, start_pos) ==
    IF KindAt(ts, start_pos + 1, {"Identifier"})
    THEN Recovered([type |-> "Task", id |-> At(ts, start_pos + 1).text,
                    task_type |-> TaskTypeOf(At(ts, start_pos).kind),
                    attributes |-> EmptyMap, span |-> At(ts, start_pos).span],
                   skip_malformed_attributes(ts, start_pos + 2), <<>>)
    ELSE Recovered([type |-> "Task", id |-> TaskPlaceholder(start_pos),
                    task_type |-> TaskTypeOf(At(ts, start_pos).kind),
                    attributes |-> EmptyMap, span |-> At(ts, start_pos).span],
                   skip_malformed_attributes(ts, start_pos + 1),
                   <<ParseError(Msg("Missing task identifier, using default", <<>>),
                                At(ts, start_pos).span, "Warning")>>)

RECURSIVE RecoverConditionText(_, _, _)
\* the tokens up to `]` joined by single spaces, then the `]` passed over
RecoverConditionText(ts, p, cond) ==
    IF p < Len(ts) /\ At(ts, p).kind # "RightBracket"
    THEN RecoverConditionText(ts, p + 1,
             IF Len(cond) > 0 THEN cond \o <<" ">> \o At(ts, p).text ELSE At(ts, p).text)
    ELSE [cond |-> cond, pos |-> IF p < Len(ts) THEN p + 1 ELSE p]

BracketHead(c) == [some |-> TRUE, condition |-> Some(c.cond), is_default |-> FALSE, pos |-> c.pos]

RecoverBranchHead(ts, p) ==
    CASE At(ts, p).kind = "LeftBracket" -> BracketHead(RecoverConditionText(ts, p + 1, <<>>))
      [] At(ts, p).kind = "DefaultFlow" ->
            [some |-> TRUE, condition |-> None, is_default |-> TRUE, pos |-> p]
      [] At(ts, p).kind = "Identifier" ->
            [some |-> TRUE, condition |-> Some(At(ts, p).text), is_default |-> FALSE, pos |-> p + 1]
      [] OTHER -> [some |-> FALSE]

\* the arrow and the target of a recovered branch
RecoverBranchRest(ts, span, head) ==
    IF ~head.some THEN NotRecovered(<<>>)
    ELSE IF ~KindAt(ts, head.pos, {"SequenceFlow", "DefaultFlow"})
    THEN NotRecovered(<<ParseError(Msg("Missing arrow in gateway branch", <<>>), span, "Error")>>)
    ELSE IF KindAt(ts, head.pos + 1, {"Identifier"})
    THEN Recovered([condition |-> head.condition, target |-> At(ts, head.pos + 1).text,
                    is_default |-> head.is_default, span |-> span],
                   head.pos + 2, <<>>)
    ELSE Recovered([condition |-> head.condition, target |-> TargetPlaceholder(head.pos + 1),
                    is_default |-> head.is_default, span |-> span],
                   head.pos + 1,
                   <<ParseError(Msg("Missing target in gateway branch", <<>>), span, "Error")>>)

recover_single_branch(ts, start_pos) ==
    RecoverBranchRest(ts, At(ts, start_pos).span, RecoverBranchHead(ts, start_pos))

RECURSIVE RecoverBranches(_, _, _, _)
RECURSIVE RecoverBranchStep(_, _, _, _, _)

RecoverBranches(ts, p, branches, errs) ==
    IF p < Len(ts) /\ At(ts, p).kind # "RightBrace"
    THEN RecoverBranchStep(ts, p, branches, errs, recover_single_branch(ts, p))
    ELSE [branches |-> branches, pos |-> p, errs |-> errs]

RecoverBranchStep(ts, p, branches, errs, b) ==
    IF b.some THEN RecoverBranches(ts, b.pos, Append(branches, b.val), errs \o b.errs)
    ELSE RecoverBranches(ts, p + 1, branches, errs \o b.errs)

recover_gateway_branches(ts, start_pos) == RecoverBranches(ts, start_pos, <<>>, <<>>)

\* the cursor after the gateway keyword, its optional identifier and optional `?`
GatewayBlockStart(ts, start_pos) ==
    LET afterId == IF KindAt(ts, start_pos + 1, {"Identifier"}) THEN start_pos + 2
                   ELSE start_pos + 1
    IN  IF KindAt(ts, afterId, {"Question"}) THEN afterId + 1 ELSE afterId

RecoveredGateway(ts, start_pos, branches) ==
    [type |-> "Gateway",
     id |-> IF KindAt(ts, start_pos + 1, {"Identifier"}) THEN Some(At(ts, start_pos + 1).text)
            ELSE None,
     gateway_type |-> GatewayTypeOf(At(ts, start_pos).kind),
     branches |-> branches, span |-> At(ts, start_pos).span]

\* the branches block of a recovered gateway, its closing brace passed over if present
GatewayBlock(ts, start_pos, block) ==
    Recovered(RecoveredGateway(ts, start_pos, block.branches),
              IF KindAt(ts, block.pos, {"RightBrace"}) THEN block.pos + 1 ELSE block.pos,
              block.errs)

GatewayFrom(ts, start_pos, p) ==
    IF KindAt(ts, p, {"LeftBrace"})
    THEN GatewayBlock(ts, start_pos, recover_gateway_branches(ts, p + 1))
    ELSE Recovered(RecoveredGateway(ts, start_pos, <<>>), p,
                   <<ParseError(Msg("Gateway missing branches block", <<>>),
                                At(ts, start_pos).span, "Error")>>)

recover_gateway(ts, start_pos) == GatewayFrom(ts, start_pos, GatewayBlockStart(ts, start_pos))

RecoveredEvent(type, span) ==
    [type |-> type, id |-> None, event_type |-> None, attributes |-> EmptyMap, span |-> span]

recover_process_element(ts, start_pos) ==
    IF start_pos >= Len(ts) THEN NotRecovered(<<>>)
    ELSE CASE At(ts, start_pos).kind = "Start" ->
                Recovered(RecoveredEvent("StartEvent", At(ts, start_pos).span), start_pos + 1, <<>>)
           [] At(ts, start_pos).kind = "End" ->
                Recovered(RecoveredEvent("EndEvent", At(ts, start_pos).span), start_pos + 1, <<>>)
           [] At(ts, start_pos).kind \in TaskKeywords -> recover_task(ts, start_pos)
           [] At(ts, start_pos).kind \in {"Xor", "And"} -> recover_gateway(ts, start_pos)
           [] OTHER ->
                NotRecovered(<<ParseError(Msg("Cannot recover from token", At(ts, start_pos).text),
                                          At(ts, start_pos).span, "Error")>>)

\* the target of a recovered flow: an identifier, or a placeholder and a diagnostic
RecoverFlowTarget(ts, start_pos, p) ==
    IF KindAt(ts, p, {"Identifier"})
    THEN [to |-> At(ts, p).text, pos |-> p + 1, errs |-> <<>>]
    ELSE [to |-> TargetPlaceholder(p), pos |-> p,
          errs |-> <<ParseError(Msg("Missing target in flow", <<>>), At(ts, start_pos).span,
                                "Error")>>]

RecoveredFlow(ts, start_pos, target, condition) ==
    [from |-> At(ts, start_pos).text, to |-> target.to,
     flow_type |-> FlowTypeOf(At(ts, start_pos + 1).kind),
     condition |-> condition, span |-> At(ts, start_pos).span]

FlowWithCondition(ts, start_pos, target, c) ==
    Recovered(RecoveredFlow(ts, start_pos, target, Some(c.cond)), c.pos, target.errs)

RecoverFlowCondition(ts, start_pos, target) ==
    IF KindAt(ts, target.pos, {"LeftBracket"})
    THEN FlowWithCondition(ts, start_pos, target, RecoverConditionText(ts, target.pos + 1, <<>>))
    ELSE Recovered(RecoveredFlow(ts, start_pos, target, None), target.pos, target.errs)

recover_flow(ts, start_pos) ==
    IF ~KindAt(ts, start_pos, {"Identifier"}) THEN NotRecovered(<<>>)
    ELSE IF ~KindAt(ts, start_pos + 1, FlowArrows) THEN NotRecovered(<<>>)
    ELSE RecoverFlowCondition(ts, start_pos, RecoverFlowTarget(ts, start_pos, start_pos + 2))

SyncKeywords ==
    {"Start", "End", "Task", "User", "Service", "Script", "Xor", "And", "Event", "Process",
     "Import", "Subprocess", "Pool", "Lane"}

RECURSIVE find_sync_point_Past(_, _)
\* mutant of find_sync_point: a `}` is passed over together with the token behind it
find_sync_point_Past(ts, p) ==
    IF p < Len(ts)
    THEN CASE At(ts, p).kind = "RightBrace" -> p + 2
           [] At(ts, p).kind \in SyncKeywords -> p
           [] OTHER -> find_sync_point_Past(ts, p + 1)
    ELSE p

RECURSIVE find_sync_point(_, _)
find_sync_point(ts, p) ==
    IF p < Len(ts)
    THEN CASE At(ts, p).kind = "RightBrace" -> p + 1
           [] At(ts, p).kind \in SyncKeywords -> p
           [] OTHER -> find_sync_point(ts, p + 1)
    ELSE p

(***************************************************************************)
(* parse_with_recovery as a state machine.  One action is one iteration of *)
(* a loop of parse_with_recovery or of parse_process_with_recovery, or the *)
(* code between two loops.                                                 *)
(*   tokens    the token vector handed to Parser::new                      *)
(*   position  Parser.position                                             *)
(*   pc        where the call stands                                       *)
(*   document  the AstDocument under construction                          *)
(*   recovery  ErrorRecovery.errors                                        *)
(*   process   the ProcessDeclaration under construction                   *)
(*   entered   the cursor at the start of the running process-loop pass    *)
(*   iters     loop iterations started so far                              *)
(*   lastPath  which arm the last body iteration took                      *)
(*   outcome   the result of a parser function called on its own           *)
(*   returnedDocuments  the results of the earlier calls on these tokens   *)
(***************************************************************************)
NewDocument == [imports |-> <<>>, processes |-> <<>>, errors |-> <<>>]

NoProcess == <<>>

\* ParserError's Display text, kept as the variant's wording and the text it quotes
to_string(err) ==
    IF err.kind = "UnexpectedToken" THEN Msg("Unexpected token, expected " \o err.expected, err.found)
    ELSE Msg("Invalid attribute value", err.value)

add_error(doc, message, span) ==
    [doc EXCEPT !.errors = Append(@, ParseError(message, span, "Error"))]

SkipUnexpected_Stuck(ts, p) == p

\* the last arm of the body loop passes over the token it reports
SkipUnexpected(ts, p) == advance(ts, p)

OrDefault(r, attributes) ==
    Ok(attributes.pos,
       ("attributes" :> (IF attributes.ok THEN attributes.val ELSE EmptyMap)) @@ r.val)

\* parse_attributes().unwrap_or_default(): a failure yields the empty map and
\* leaves the cursor where the failure occurred
DefaultedAttributes(ts, r) == IF ~r.ok THEN r ELSE OrDefault(r, parse_attributes(ts, r.pos))

SkipTrivia(ts, r) == IF r.ok THEN Ok(skip_whitespace_and_comments(ts, r.pos), r.val) ELSE r

\* parse_process_with_recovery up to its body loop
ProcessHeader(ts, p) ==
    SkipTrivia(ts,
        ThenToken(ts,
            DefaultedAttributes(ts,
                ThenIdentifier(ts,
                    ThenToken(ts,
                        Ok(p, [elements |-> <<>>, flows |-> <<>>, span |-> current_span(ts, p)]),
                        "Process"),
                    "name")),
            "LeftBrace"))

BodyResult(path, element, flow, errs, p) ==
    [path |-> path, element |-> element, flow |-> flow, errs |-> errs, pos |-> p]

AfterFlowRecovery(ts, p, errs, rf) ==
    IF rf.some THEN BodyResult("recovered_flow", None, Some(rf.val), errs \o rf.errs, rf.pos)
    ELSE BodyResult("skipped", None, None,
                    errs \o rf.errs \o
                      <<ParseError(Msg("Skipping unexpected token", current_token(ts, p).text),
                                   current_span(ts, p), "Warning")>>,
                    SkipUnexpected(ts, p))

AfterElementRecovery(ts, p, re) ==
    IF re.some THEN BodyResult("recovered_element", Some(re.val), None, re.errs, re.pos)
    ELSE AfterFlowRecovery(ts, p, re.errs, recover_flow(ts, p))

\* the recovery engine entered where the flow parse gave up
AfterFlow_NotRestored(ts, p, f) ==
    IF f.ok THEN BodyResult("flow", None, Some(f.val), <<>>, f.pos)
    ELSE AfterElementRecovery(ts, f.pos, recover_process_element(ts, f.pos))

AfterFlow(ts, p, f) ==
    IF f.ok THEN BodyResult("flow", None, Some(f.val), <<>>, f.pos)
    ELSE AfterElementRecovery(ts, p, recover_process_element(ts, p))

AfterElement(ts, p, e) ==
    IF e.ok THEN BodyResult("element", Some(e.val), None, <<>>, e.pos)
    ELSE AfterFlow(ts, p, parse_flow(ts, p))

\* one pass of the body loop of parse_process_with_recovery from cursor p: each
\* attempt after a failed one starts again at p
BodyStep(ts, p) == AfterElement(ts, p, parse_process_element(ts, p))

BodyDone(ts, p) == check_token(ts, p, "RightBrace") \/ is_at_end(ts, p)

\* the error arm of both document-level loops
SyncAfter(ts, r) == skip_whitespace_and_comments(ts, find_sync_point(ts, r.pos))

ParseStart ==
    /\ pc = "start"
    /\ position' = skip_whitespace_and_comments(tokens, position)
    /\ pc' = "imports"
    /\ UNCHANGED <<written, tokens, document, recovery, process, entered, iters, lastPath, outcome, returnedDocuments>>
    /\ UNCHANGED besideParser

ImportIter ==
    /\ pc = "imports"
    /\ check_token(tokens, position, "Import")
    /\ \E r \in {parse_import(tokens, position)} :
          IF r.ok
          THEN /\ document' = [document EXCEPT !.imports = Append(@, r.val)]
               /\ position' = skip_whitespace_and_comments(tokens, r.pos)
          ELSE /\ document' = add_error(document, to_string(r.err), current_span(tokens, r.pos))
               /\ position' = SyncAfter(tokens, r)
    /\ iters' = iters + 1
    /\ UNCHANGED <<written, tokens, pc, recovery, process, entered, lastPath, outcome, returnedDocuments>>
    /\ UNCHANGED besideParser

ImportsEnd ==
    /\ pc = "imports"
    /\ ~check_token(tokens, position, "Import")
    /\ pc' = "processes"
    /\ UNCHANGED <<written, tokens, position, document, recovery, process, entered, iters, lastPath, outcome, returnedDocuments>>
    /\ UNCHANGED besideParser

ProcessBegin ==
    /\ pc = "processes"
    /\ check_token(tokens, position, "Process")
    /\ \E h \in {ProcessHeader(tokens, position)} :
          IF h.ok
          THEN /\ process' = h.val
               /\ position' = h.pos
               /\ pc' = "body"
               /\ document' = document
          ELSE /\ document' = add_error(document, to_string(h.err), current_span(tokens, h.pos))
               /\ position' = SyncAfter(tokens, h)
               /\ pc' = "processes"
               /\ process' = NoProcess
    /\ entered' = position
    /\ iters' = iters + 1
    /\ UNCHANGED <<written, tokens, recovery, lastPath, outcome, returnedDocuments>>
    /\ UNCHANGED besideParser

Pushed_Front(list, x) == x \o list

\* elements.push / flows.push of what the iteration obtained, if anything
Pushed(list, x) == list \o x

BodyIter ==
    /\ pc = "body"
    /\ ~BodyDone(tokens, position)
    /\ \E b \in {BodyStep(tokens, position)} :
          /\ process' = [process EXCEPT !.elements = Pushed(@, b.element),
                                         !.flows = Pushed(@, b.flow)]
          /\ recovery' = recovery \o b.errs
          /\ position' = skip_whitespace_and_comments(tokens, b.pos)
          /\ lastPath' = b.path
    /\ iters' = iters + 1
    /\ UNCHANGED <<written, tokens, pc, document, entered, outcome, returnedDocuments>>
    /\ UNCHANGED besideParser

MissingBrace_Silent(ts, p) == <<>>

\* what parse_process_with_recovery records when its body loop ended without `}`
MissingBrace(ts, p) ==
    <<ParseError(Msg("Missing closing brace for process", <<>>), current_span(ts, p), "Error")>>

ProcessClose ==
    /\ pc = "body"
    /\ BodyDone(tokens, position)
    /\ IF check_token(tokens, position, "RightBrace")
       THEN /\ position' = skip_whitespace_and_comments(tokens, advance(tokens, position))
            /\ recovery' = recovery
       ELSE /\ position' = skip_whitespace_and_comments(tokens, position)
            /\ recovery' = recovery \o MissingBrace(tokens, position)
    /\ document' = [document EXCEPT !.processes = Append(@, process)]
    /\ process' = NoProcess
    /\ pc' = "processes"
    /\ UNCHANGED <<written, tokens, entered, iters, lastPath, outcome, returnedDocuments>>
    /\ UNCHANGED besideParser

ParseFinish ==
    /\ pc = "processes"
    /\ ~check_token(tokens, position, "Process")
    /\ document' =
          [document EXCEPT !.errors =
              @ \o recovery \o
              (IF ~is_at_end(tokens, position) /\ ~check_token(tokens, position, "Eof")
               THEN <<ParseError(Msg("Unexpected token", current_token(tokens, position).text),
                                 current_span(tokens, position), "Error")>>
               ELSE <<>>)]
    /\ pc' = "done"
    /\ UNCHANGED <<written, tokens, position, recovery, process, entered, iters, lastPath, outcome, returnedDocuments>>
    /\ UNCHANGED besideParser

\* no tokenize call is under way
LexerIdle ==
    /\ input = <<>>
    /\ offset = 0
    /\ lexed = <<>>
    /\ line = 1
    /\ column = 1
    /\ lexPc = "idle"
    /\ returnedTokens = <<>>

\* no SyntaxValidator has been given a document
ValidatorIdle ==
    /\ valDocument = NewDocument
    /\ valErrors = <<>>
    /\ valProduced = <<>>
    /\ valResult = None
    /\ valPrevious = None
    /\ valCalls = 0

\* no suggestion function has been called
SuggestIdle ==
    /\ candidates = <<>>
    /\ max_suggestions = 0
    /\ suggested = None
    /\ sugPc = "idle"

\* no ContextValidator has been given tokens
ContextIdle ==
    /\ ctxTokens = <<>>
    /\ ctxErrors = <<>>
    /\ ctxResult = None
    /\ ctxCalls = 0

\* no identifier is being compared with anything
DiagnosticsIdle ==
    /\ similarity = EmptyMap
    /\ SuggestIdle
    /\ ContextIdle

ParseNext ==
    \/ ParseStart
    \/ ImportIter
    \/ ImportsEnd
    \/ ProcessBegin
    \/ BodyIter
    \/ ProcessClose
    \/ ParseFinish

ParserInit(inputs) ==
    /\ \E i \in inputs : written = i.written /\ tokens = WithSpans(i.tokens)
    /\ position = 0
    /\ pc = "start"
    /\ document = NewDocument
    /\ recovery = <<>>
    /\ process = NoProcess
    /\ entered = 0
    /\ iters = 0
    /\ lastPath = "none"
    /\ outcome = None
    /\ returnedDocuments = <<>>
    /\ LexerIdle
    /\ ValidatorIdle
    /\ DiagnosticsIdle

(***************************************************************************)
(* Token streams                                                           *)
(***************************************************************************)
Ident(name) == Tk("Identifier", name)

Eof == Tk("Eof", <<>>)

tkProcess == Tk("Process", T_process)

tkImport == Tk("Import", T_import)

tkTask == Tk("Task", T_task)

tkStart == Tk("Start", T_start)

tkEnd == Tk("End", T_end)

tkXor == Tk("Xor", T_xor)

tkAnd == Tk("And", T_and)

tkLeftBrace == Tk("LeftBrace", <<"{">>)

tkRightBrace == Tk("RightBrace", <<"}">>)

tkLeftBracket == Tk("LeftBracket", <<"[">>)

tkRightBracket == Tk("RightBracket", <<"]">>)

tkLeftParen == Tk("LeftParen", <<"(">>)

tkRightParen == Tk("RightParen", <<")">>)

tkEquals == Tk("Equals", <<"=">>)

tkComma == Tk("Comma", <<",">>)

tkQuestion == Tk("Question", <<"?">>)

tkSequenceFlow == Tk("SequenceFlow", <<"-", ">">>)

tkDefaultFlow == Tk("DefaultFlow", <<"=", ">">>)

tkNewline == Tk("Newline", <<"\n">>)

tkString == Tk("StringLiteral", <<"\"", "p", "\"">>)

RECURSIVE Concats(_, _)
\* the concatenations of at most n members of F
Concats(F, n) ==
    IF n = 0 THEN {<<>>}
    ELSE LET shorter == Concats(F, n - 1)
         IN  shorter \cup {s \o f : s \in shorter, f \in F}

MaxBody == 3

\* what precedes the body: a process header, alone or after an import, and
\* an import that fails before a header that fails
Headers ==
    {<<tkProcess, Ident(<<"P">>), tkLeftBrace>>,
     <<tkImport, tkString, tkNewline, tkProcess, Ident(<<"P">>), tkLeftBrace>>,
     <<tkImport, Ident(<<"x">>), tkProcess, tkLeftBrace>>}

BodyTokens ==
    {tkTask, Ident(<<"A">>), tkSequenceFlow, tkDefaultFlow, tkXor, tkLeftBrace, tkRightBrace,
     tkLeftBracket, tkLeftParen, tkNewline, tkStart}

\* arbitrary sequences of up to n tokens after a header, with and without the closing Eof
GeneralInputs(n) ==
    {[written |-> [family |-> "general"], tokens |-> h \o b \o e] :
        h \in Headers, b \in Concats({<<t>> : t \in BodyTokens}, n), e \in {<<Eof>>, <<>>}}

Init == ParserInit(GeneralInputs(MaxBody))

Next == ParseNext

Spec == Init /\ [][Next]_vars

(***************************************************************************)
(* C1  Progress and termination of parse_with_recovery                     *)
(***************************************************************************)
\* a step that starts a loop iteration moves the cursor forward, and the pass
\* of the process loop that ends with the process's end has moved it forward
C1_StepProgress ==
    /\ iters' = iters + 1 => position' > position
    /\ (pc = "body" /\ pc' = "processes") => position' > entered

\* C1: every iteration of the import loop, of the process loop and of the body
\* loop of parse_with_recovery ends with the cursor strictly greater than at its
\* start, so the iterations started never number more than the tokens and the
\* loops cannot run forever.
C1_Progress ==
    /\ [][C1_StepProgress]_vars
    /\ [](iters <= Len(tokens))

\* a finished call that ran all three loops, the body loop last through its
\* skip-the-token arm
C1_Witness ==
    /\ pc = "done"
    /\ Len(document.imports) > 0
    /\ Len(document.processes) > 0
    /\ lastPath = "skipped"
    /\ iters >= 4

(***************************************************************************)
(* Gateways written in a process body                                      *)
(***************************************************************************)
RECURSIVE Flatten(_)
\* the concatenation of a sequence of sequences
Flatten(ss) == IF Len(ss) = 0 THEN <<>> ELSE Head(ss) \o Flatten(Tail(ss))

RECURSIVE SeqsUpTo(_, _)
\* the sequences of at most n members of S
SeqsUpTo(S, n) ==
    IF n = 0 THEN {<<>>}
    ELSE LET shorter == SeqsUpTo(S, n - 1)
         IN  shorter \cup {Append(s, x) : s \in shorter, x \in S}

MaxBranches == 3

\* the four branch forms: `[a] -> X`, `[a = b] -> X`, `c -> Y`, `=> Z`
BranchForms ==
    {[form |-> "bracket", cond |-> <<Ident(<<"a">>)>>, target |-> <<"X">>],
     [form |-> "bracket", cond |-> <<Ident(<<"a">>), tkEquals, Ident(<<"b">>)>>,
      target |-> <<"X">>],
     [form |-> "identifier", cond |-> <<Ident(<<"c">>)>>, target |-> <<"Y">>],
     [form |-> "default", cond |-> <<>>, target |-> <<"Z">>]}

BranchTokens(b) ==
    CASE b.form = "bracket" ->
            <<tkLeftBracket>> \o b.cond \o <<tkRightBracket, tkSequenceFlow, Ident(b.target)>>
      [] b.form = "identifier" -> b.cond \o <<tkSequenceFlow, Ident(b.target)>>
      [] b.form = "default" -> <<tkDefaultFlow, Ident(b.target)>>

GatewayCases(n) ==
    {[family |-> "gateway", kind |-> k, id |-> i, question |-> q, newlines |-> nl,
      imported |-> im, branches |-> bs] :
        k \in {"Xor", "And"}, i \in {None, Some(<<"G">>)}, q \in {FALSE}, nl \in BOOLEAN,
        im \in BOOLEAN, bs \in SeqsUpTo(BranchForms, n)}
    \cup
    {[family |-> "gateway", kind |-> "Xor", id |-> i, question |-> TRUE, newlines |-> nl,
      imported |-> im, branches |-> bs] :
        i \in {None, Some(<<"G">>)}, nl \in BOOLEAN, im \in BOOLEAN,
        bs \in SeqsUpTo(BranchForms, n)}

ImportLine(imported) == IF imported THEN <<tkImport, tkString, tkNewline>> ELSE <<>>

\* `process P { start <gateway> }`, the branches on one line or one per line
GatewayTokens(w) ==
    ImportLine(w.imported)
    \o <<tkProcess, Ident(<<"P">>), tkLeftBrace, tkStart>>
    \o <<IF w.kind = "Xor" THEN tkXor ELSE tkAnd>>
    \o (IF w.id = None THEN <<>> ELSE <<Ident(w.id[1])>>)
    \o (IF w.question THEN <<tkQuestion>> ELSE <<>>)
    \o <<tkLeftBrace>>
    \o Flatten([n \in 1..Len(w.branches) |->
                  (IF w.newlines THEN <<tkNewline>> ELSE <<>>) \o BranchTokens(w.branches[n])])
    \o <<tkRightBrace, tkRightBrace, Eof>>

GatewayInputs(n) == {[written |-> w, tokens |-> GatewayTokens(w)] : w \in GatewayCases(n)}

InitGateway == ParserInit(GatewayInputs(MaxBranches))

SpecGateway == InitGateway /\ [][Next]_vars

(***************************************************************************)
(* C3  A well-formed gateway is returned as written                        *)
(***************************************************************************)
RECURSIVE ConditionText(_, _)
\* the condition text of a bracket's tokens: the texts joined by one space,
\* the space left out before = ! < > & |
ConditionText(toks, n) ==
    IF n = 0 THEN <<>>
    ELSE IF n = 1 THEN toks[1].text
    ELSE IF toks[n].text \in {<<"=">>, <<"!">>, <<"<">>, <<">">>, <<"&">>, <<"|">>}
    THEN ConditionText(toks, n - 1) \o toks[n].text
    ELSE ConditionText(toks, n - 1) \o <<" ">> \o toks[n].text

BranchAsWritten(b) ==
    [condition |-> IF b.form = "default" THEN None ELSE Some(ConditionText(b.cond, Len(b.cond))),
     target |-> b.target,
     is_default |-> b.form = "default"]

WithoutSpan(b) == [condition |-> b.condition, target |-> b.target, is_default |-> b.is_default]

Gateways(elements) == SelectSeq(elements, LAMBDA e : e.type = "Gateway")

\* the returned document holds the gateway as written: id, kind, the branches in order
GatewayReturned(w, doc) ==
    /\ Len(doc.processes) = 1
    /\ Len(Gateways(doc.processes[1].elements)) = 1
    /\ LET g == Gateways(doc.processes[1].elements)[1]
       IN  /\ g.id = w.id
           /\ g.gateway_type = (IF w.kind = "Xor" THEN "Exclusive" ELSE "Parallel")
           /\ Len(g.branches) = Len(w.branches)
           /\ \A n \in 1..Len(w.branches) :
                 WithoutSpan(g.branches[n]) = BranchAsWritten(w.branches[n])

\* C3: for a gateway in a process body with n well-formed branches,
\* parse_with_recovery returns one Gateway with the written id and kind and the
\* n branches in order, `=>` branches default and without condition, the others
\* not default and with their condition, and records no diagnostic.
C3_GatewayAsWritten ==
    (pc = "done" /\ written.family = "gateway") =>
        /\ GatewayReturned(written, document)
        /\ document.errors = <<>>

(***************************************************************************)
(* Tasks written with a parenthesised attribute list                       *)
(***************************************************************************)
MaxPairs == 3

\* key=value pairs and the attribute value each denotes
PairForms ==
    {[key |-> <<"t", "i", "m", "e", "o", "u", "t">>,
      token |-> Tk("NumberLiteral", <<"3", "0", "s">>),
      value |-> [type |-> "Duration", text |-> <<"3", "0", "s">>]],
     [key |-> <<"r", "e", "t", "r", "i", "e", "s">>,
      token |-> Tk("NumberLiteral", <<"3">>),
      value |-> [type |-> "Number", num |-> [whole |-> 3, frac |-> <<>>]]],
     [key |-> <<"o", "w", "n", "e", "r">>,
      token |-> Tk("StringLiteral", <<"\"", "b", "o", "b", "\"">>),
      value |-> [type |-> "String", text |-> <<"b", "o", "b">>]]}

AttributeCases(n) ==
    {[family |-> "attributes", pairs |-> ps, commas |-> c, imported |-> im] :
        ps \in SeqsUpTo(PairForms, n) \ {<<>>}, c \in BOOLEAN, im \in BOOLEAN}

PairTokens(w, n) ==
    (IF w.commas /\ n > 1 THEN <<tkComma>> ELSE <<>>)
    \o <<Ident(w.pairs[n].key), tkEquals, w.pairs[n].token>>

\* `process P { task Foo (k=v k=v) }`, the pairs separated by commas or not
AttributeTokens(w) ==
    ImportLine(w.imported)
    \o <<tkProcess, Ident(<<"P">>), tkLeftBrace, tkTask, Ident(<<"F", "o", "o">>), tkLeftParen>>
    \o Flatten([n \in 1..Len(w.pairs) |-> PairTokens(w, n)])
    \o <<tkRightParen, tkRightBrace, Eof>>

AttributeInputs(n) == {[written |-> w, tokens |-> AttributeTokens(w)] : w \in AttributeCases(n)}

InitAttributes == ParserInit(AttributeInputs(MaxPairs))

SpecAttributes == InitAttributes /\ [][Next]_vars

(***************************************************************************)
(* C4  Attribute pairs separated by whitespace only                        *)
(***************************************************************************)
\* the map holds the pair written last for each key written
HoldsPairs(attributes, pairs) ==
    \A n \in 1..Len(pairs) :
        /\ pairs[n].key \in DOMAIN attributes
        /\ \/ attributes[pairs[n].key] = pairs[n].value
           \/ \E m \in (n + 1)..Len(pairs) : pairs[m].key = pairs[n].key

\* C4: a task whose parenthesised attribute list separates its key=value pairs
\* by whitespace only is returned by parse_with_recovery as a Task whose
\* attribute map contains every listed pair.
C4_WhitespaceSeparatedPairs ==
    (pc = "done" /\ written.family = "attributes" /\ ~written.commas) =>
        /\ Len(document.processes) = 1
        /\ Len(document.processes[1].elements) = 1
        /\ document.processes[1].elements[1].type = "Task"
        /\ document.processes[1].elements[1].id = <<"F", "o", "o">>
        /\ HoldsPairs(document.processes[1].elements[1].attributes, written.pairs)

(***************************************************************************)
(* The lexer.  The logos rules of TokenKind: at each offset the longest    *)
(* match wins, a #[token] over a #[regex] of the same length, and the      *)
(* catch-all `.` last.                                                     *)
(***************************************************************************)
Letters ==
    {"a","b","c","d","e","f","g","h","i","j","k","l","m","n","o","p","q","r","s","t","u","v",
     "w","x","y","z","A","B","C","D","E","F","G","H","I","J","K","L","M","N","O","P","Q","R",
     "S","T","U","V","W","X","Y","Z"}

Blanks == {" ", "\t", "\f"}

\* the #[token] rules
FixedTokens ==
    {[kind |-> "Process", text |-> T_process], [kind |-> "Import", text |-> T_import],
     [kind |-> "From", text |-> T_from], [kind |-> "As", text |-> T_as],
     [kind |-> "Subprocess", text |-> T_subprocess], [kind |-> "Start", text |-> T_start],
     [kind |-> "End", text |-> T_end], [kind |-> "Task", text |-> T_task],
     [kind |-> "User", text |-> T_user], [kind |-> "Service", text |-> T_service],
     [kind |-> "Script", text |-> T_script], [kind |-> "Call", text |-> T_call],
     [kind |-> "Xor", text |-> T_xor], [kind |-> "And", text |-> T_and],
     [kind |-> "Event", text |-> T_event], [kind |-> "Group", text |-> T_group],
     [kind |-> "Pool", text |-> T_pool], [kind |-> "Lane", text |-> T_lane],
     [kind |-> "Note", text |-> T_note],
     [kind |-> "SequenceFlow", text |-> <<"-", ">">>],
     [kind |-> "MessageFlow", text |-> <<"-", "-", ">">>],
     [kind |-> "DefaultFlow", text |-> <<"=", ">">>],
     [kind |-> "Association", text |-> <<".", ".", ">">>],
     [kind |-> "Namespace", text |-> <<":", ":">>],
     [kind |-> "LeftBrace", text |-> <<"{">>], [kind |-> "RightBrace", text |-> <<"}">>],
     [kind |-> "LeftParen", text |-> <<"(">>], [kind |-> "RightParen", text |-> <<")">>],
     [kind |-> "LeftBracket", text |-> <<"[">>], [kind |-> "RightBracket", text |-> <<"]">>],
     [kind |-> "Comma", text |-> <<",">>], [kind |-> "Equals", text |-> <<"=">>],
     [kind |-> "At", text |-> <<"@">>], [kind |-> "Question", text |-> <<"?">>],
     [kind |-> "Newline", text |-> <<"\n">>],
     [kind |-> "CarriageReturnNewline", text |-> <<"\r", "\n">>]}

\* the character at offset i, or nothing past the end
CharAt(s, i) == IF i < Len(s) THEN s[i + 1] ELSE ""

LooksAt(s, i, text) == i + Len(text) <= Len(s) /\ SubSeq(s, i + 1, i + Len(text)) = text

RECURSIVE RunLen(_, _, _)
\* how many characters from offset i on belong to the class
RunLen(s, i, class) == IF CharAt(s, i) \in class THEN 1 + RunLen(s, i + 1, class) ELSE 0

RECURSIVE LineLen(_, _)
\* how many characters from offset i on precede the next newline
LineLen(s, i) == IF i < Len(s) /\ CharAt(s, i) # "\n" THEN 1 + LineLen(s, i + 1) ELSE 0

\* (\.[0-9]+)? at offset i
FractionLen(s, i) ==
    IF CharAt(s, i) = "." /\ RunLen(s, i + 1, Digits) > 0 THEN 1 + RunLen(s, i + 1, Digits) ELSE 0

SuffixedLen(s, i, n) == n + RunLen(s, i + n, Letters)

\* [0-9]+(\.[0-9]+)?[a-zA-Z]*
NumberLen(s, i) ==
    IF RunLen(s, i, Digits) = 0 THEN 0
    ELSE SuffixedLen(s, i, RunLen(s, i, Digits) + FractionLen(s, i + RunLen(s, i, Digits)))

\* [a-zA-Z_][a-zA-Z0-9_]*
IdentifierLen(s, i) ==
    IF CharAt(s, i) \in Letters \cup {"_"} THEN RunLen(s, i, Letters \cup Digits \cup {"_"}) ELSE 0

RECURSIVE StringEnd(_, _)
\* the offset after the closing quote of ([^"\\]|\\.)*" read from offset i, or 0
StringEnd(s, i) ==
    IF i >= Len(s) THEN 0
    ELSE IF CharAt(s, i) = "\"" THEN i + 1
    ELSE IF CharAt(s, i) = "\\"
    THEN IF i + 1 < Len(s) /\ CharAt(s, i + 1) # "\n" THEN StringEnd(s, i + 2) ELSE 0
    ELSE StringEnd(s, i + 1)

StringLen(s, i) ==
    IF CharAt(s, i) = "\"" /\ StringEnd(s, i + 1) > 0 THEN StringEnd(s, i + 1) - i ELSE 0

LineCommentLen(s, i) == IF LooksAt(s, i, <<"/", "/">>) THEN 2 + LineLen(s, i + 2) ELSE 0

RECURSIVE BlockEnd(_, _)
\* the offset after the closing */ of ([^*]|\*[^/])*\*/ read from offset i, or 0
BlockEnd(s, i) ==
    IF i >= Len(s) THEN 0
    ELSE IF CharAt(s, i) # "*" THEN BlockEnd(s, i + 1)
    ELSE IF i + 1 >= Len(s) THEN 0
    ELSE IF CharAt(s, i + 1) = "/" THEN i + 2
    ELSE BlockEnd(s, i + 2)

BlockCommentLen(s, i) ==
    IF LooksAt(s, i, <<"/", "*">>) /\ BlockEnd(s, i + 2) > 0 THEN BlockEnd(s, i + 2) - i ELSE 0

Rule(kind, len, priority) == [kind |-> kind, len |-> len, priority |-> priority]

\* every rule that matches at offset i, with the length of its match
Matches(s, i) ==
    {Rule(f.kind, Len(f.text), 3) : f \in {g \in FixedTokens : LooksAt(s, i, g.text)}}
    \cup {r \in {Rule("StringLiteral", StringLen(s, i), 2),
                 Rule("NumberLiteral", NumberLen(s, i), 2),
                 Rule("Identifier", IdentifierLen(s, i), 2),
                 Rule("LineComment", LineCommentLen(s, i), 2),
                 Rule("BlockComment", BlockCommentLen(s, i), 2),
                 Rule("Unknown", IF CharAt(s, i) # "\n" THEN 1 ELSE 0, 1)} : r.len > 0}

Longest(rules) ==
    CHOOSE r \in rules :
        \A q \in rules : r.len > q.len \/ (r.len = q.len /\ r.priority >= q.priority)

\* #[logos(skip r"[ \t\f]+")]
SkipBlanks(s, i) == i + RunLen(s, i, Blanks)

RECURSIVE calculate_position(_, _, _, _)
\* the line and column of offset pos, counted from the start of the input
calculate_position(s, pos, i, at) ==
    IF i >= Len(s) \/ i >= pos THEN at
    ELSE calculate_position(s, pos, i + 1,
             IF CharAt(s, i) = "\n" THEN [line |-> at.line + 1, column |-> 1]
             ELSE [line |-> at.line, column |-> at.column + 1])

Span(start, end, at) == [start |-> start, end |-> end, line |-> at.line, column |-> at.column]

\* the token of rule r found at offset start
TokenAt(s, start, r) ==
    [kind |-> r.kind, text |-> SubSeq(s, start + 1, start + r.len),
     span |-> Span(start, start + r.len,
                   calculate_position(s, start, 0, [line |-> 1, column |-> 1]))]

EofOffset_LastToken(s, consumed) == consumed

\* where the closing Eof token is placed: input.len()
EofOffset(s, consumed) == Len(s)

\* one pass of the loop of tokenize: logos yields a token
LexToken ==
    /\ lexPc = "lexing"
    /\ SkipBlanks(input, offset) < Len(input)
    /\ \E r \in {Longest(Matches(input, SkipBlanks(input, offset)))} :
          /\ lexed' = Append(lexed, TokenAt(input, SkipBlanks(input, offset), r))
          /\ offset' = SkipBlanks(input, offset) + r.len
          /\ IF r.kind \in {"Newline", "CarriageReturnNewline"}
             THEN line' = line + 1 /\ column' = 1
             ELSE line' = line /\ column' = column + r.len
    /\ UNCHANGED <<input, lexPc, returnedTokens>>
    /\ UNCHANGED besideLexer

\* logos is exhausted: the Eof token is pushed and tokenize returns
LexEof ==
    /\ lexPc = "lexing"
    /\ SkipBlanks(input, offset) >= Len(input)
    /\ lexed' = Append(lexed,
                       [kind |-> "Eof", text |-> <<>>,
                        span |-> Span(EofOffset(input, offset), EofOffset(input, offset),
                                      [line |-> line, column |-> column])])
    /\ lexPc' = "done"
    /\ UNCHANGED <<input, offset, line, column, returnedTokens>>
    /\ UNCHANGED besideLexer

LexNext ==
    \/ LexToken
    \/ LexEof

\* no parse call is under way
ParserIdle ==
    /\ written = [family |-> "none"]
    /\ tokens = <<>>
    /\ position = 0
    /\ pc = "idle"
    /\ document = NewDocument
    /\ recovery = <<>>
    /\ process = NoProcess
    /\ entered = 0
    /\ iters = 0
    /\ lastPath = "none"
    /\ outcome = None
    /\ returnedDocuments = <<>>

MaxInput == 4

Alphabet == {"a", "s", "1", "\"", " ", "\n", "-", ">", "/", "*"}

\* Lexer::new on one of the inputs
LexerInit(inputs) ==
    /\ input \in inputs
    /\ offset = 0
    /\ lexed = <<>>
    /\ line = 1
    /\ column = 1
    /\ lexPc = "lexing"
    /\ returnedTokens = <<>>
    /\ ParserIdle
    /\ ValidatorIdle
    /\ DiagnosticsIdle

InitLexer == LexerInit(SeqsUpTo(Alphabet, MaxInput))

SpecLexer == InitLexer /\ [][LexNext]_vars

(***************************************************************************)
(* C2  tokenize ends its output with the one Eof token                     *)
(***************************************************************************)
\* C2: tokenize returns a non-empty sequence in which exactly one token has
\* kind Eof, that token is the last, its text is empty and its span starts and
\* ends at the length of the input; the empty input yields exactly [Eof].
C2_EofLast ==
    lexPc = "done" =>
        /\ Len(lexed) >= 1
        /\ {n \in 1..Len(lexed) : lexed[n].kind = "Eof"} = {Len(lexed)}
        /\ lexed[Len(lexed)].text = <<>>
        /\ lexed[Len(lexed)].span.start = Len(input)
        /\ lexed[Len(lexed)].span.end = Len(input)
        /\ (input = <<>> => Len(lexed) = 1)

\* a finished call on an input that ends in skipped blanks after two tokens
C2_Witness ==
    /\ lexPc = "done"
    /\ Len(lexed) = 3
    /\ lexed[2].span.end < Len(input)

(***************************************************************************)
(* tokenize and parse_tokens run one after the other, more than once       *)
(***************************************************************************)
\* the tokens of tokenize as the parser model reads them: the span is its start offset
ParserTokens(ts) ==
    [i \in 1..Len(ts) |-> [kind |-> ts[i].kind, text |-> ts[i].text, span |-> ts[i].span.start]]

NewLexer_Carried(s) == [input |-> s, offset |-> 0, line |-> line, column |-> column]

\* Lexer::new
NewLexer(s) == [input |-> s, offset |-> 0, line |-> 1, column |-> 1]

NewParser_Resumed(ts) == [tokens |-> ts, position |-> position]

\* Parser::new
NewParser(ts) == [tokens |-> ts, position |-> 0]

\* parse_tokens is called with the tokens tokenize returned
ParseLexed ==
    /\ lexPc = "done"
    /\ pc = "idle"
    /\ tokens' = NewParser(ParserTokens(lexed)).tokens
    /\ position' = NewParser(ParserTokens(lexed)).position
    /\ document' = NewDocument
    /\ recovery' = <<>>
    /\ process' = NoProcess
    /\ entered' = 0
    /\ iters' = 0
    /\ lastPath' = "none"
    /\ pc' = "start"
    /\ UNCHANGED <<written, outcome, returnedDocuments>>
    /\ UNCHANGED besideParser

MaxRuns == 2

\* both results are kept by the caller, who then runs a new Lexer on the same text
RunAgain ==
    /\ pc = "done"
    /\ lexPc = "done"
    /\ Len(returnedDocuments) + 1 < MaxRuns
    /\ returnedTokens' = Append(returnedTokens, lexed)
    /\ returnedDocuments' = Append(returnedDocuments, document)
    /\ offset' = NewLexer(input).offset
    /\ line' = NewLexer(input).line
    /\ column' = NewLexer(input).column
    /\ lexed' = <<>>
    /\ lexPc' = "lexing"
    /\ pc' = "idle"
    /\ UNCHANGED <<input, written, tokens, position, document, recovery, process, entered,
                   iters, lastPath, outcome>>
    /\ UNCHANGED <<validatorVars, similarity, suggestVars, contextVars>>

RunsNext ==
    \/ LexNext
    \/ ParseLexed
    \/ ParseNext
    \/ RunAgain

T_space == <<" ">>

\* source texts that open a process, after an import or with an attribute list
Openings ==
    {T_process \o T_space \o <<"P", "{">>,
     T_import \o <<"\"", "p", "\"", "\n">> \o T_process \o T_space \o <<"P", "(", "k", "=", "1", ")", "{">>}

\* the pieces a body is written from
Words ==
    {T_task \o T_space, <<"A", " ">>, <<"-", ">">>, <<"(", "k", "=", "3", "s", ")">>,
     T_start \o T_space, <<"@">>, <<"\n">>}

MaxWords == 2

\* an opening, up to n words and the closing brace or nothing
SourceTexts(n) == {o \o b \o c : o \in Openings, b \in Concats(Words, n), c \in {<<"}">>, <<>>}}

InitRuns == LexerInit(SourceTexts(MaxWords))

SpecRuns == InitRuns /\ [][RunsNext]_vars

SyntaxError(message, span, severity) ==
    [message |-> message, span |-> span, severity |-> severity]

\* validate_element's result: self.errors and the caller's node_ids afterwards
Visited(errors, node_ids) == [errors |-> errors, node_ids |-> node_ids]

\* the elements a container arm of validate_element walks
NestedElements(element) ==
    IF element.type \in {"Subprocess", "Pool", "Group"} THEN element.elements ELSE <<>>

\* the id_opt the match of validate_element yields
IdOpt(element) ==
    CASE element.type \in {"Gateway", "EndEvent", "StartEvent", "IntermediateEvent"} -> element.id
      [] element.type \in {"Subprocess", "CallActivity", "Task"} -> Some(element.id)
      [] element.type = "Pool" -> Some(element.name)
      [] OTHER -> None

\* the map a container arm starts with for its own elements (mutant: the caller's map)
NestedIds_Inherited(node_ids) == node_ids

\* the map a container arm starts with for its own elements: HashMap::new()
NestedIds(node_ids) == EmptyMap

\* the closing `if let Some(id) = id_opt` of validate_element
CheckId(errors, node_ids, id_opt, span) ==
    IF id_opt = None THEN Visited(errors, node_ids)
    ELSE IF id_opt[1] \in DOMAIN node_ids
         THEN Visited(Append(errors,
                             SyntaxError(Msg("Duplicate node id", id_opt[1]), span, "Error")),
                      node_ids)
         ELSE Visited(errors, Insert(node_ids, id_opt[1], span))

RECURSIVE validate_element(_, _, _), ValidateElements(_, _, _), ValidateRest(_, _)
validate_element(errors, element, node_ids) ==
    CheckId(ValidateElements(errors, NestedElements(element), NestedIds(node_ids)).errors,
            node_ids, IdOpt(element), element.span)

\* `for element in elements { self.validate_element(element, &mut ids) }`
ValidateElements(errors, elements, node_ids) ==
    IF elements = <<>> THEN Visited(errors, node_ids)
    ELSE ValidateRest(validate_element(errors, Head(elements), node_ids), Tail(elements))

ValidateRest(seen, rest) == ValidateElements(seen.errors, rest, seen.node_ids)

is_valid_sequence_flow(from, to, node_ids) == IF from = T_start \/ to = T_end THEN TRUE ELSE TRUE

is_valid_message_flow(from, to) == TRUE

\* mutant of is_valid_default_flow: the sentinel `start` is not exempt
is_valid_default_flow_Known(from, node_ids) == from \in DOMAIN node_ids

is_valid_default_flow(from, node_ids) == from \in DOMAIN node_ids \/ from = T_start

is_valid_association(from, to) == TRUE

Arrow(from, arrow, to) == from \o <<" ">> \o arrow \o <<" ">> \o to

\* the `match flow.flow_type` of validate_flow
FlowTypeCheck(errors, flow, node_ids) ==
    CASE flow.flow_type = "Sequence" ->
            IF ~is_valid_sequence_flow(flow.from, flow.to, node_ids)
            THEN Append(errors, SyntaxError(Msg("Invalid sequential arrow",
                                                Arrow(flow.from, <<"-", ">">>, flow.to)),
                                            flow.span, "Error"))
            ELSE errors
      [] flow.flow_type = "Message" ->
            IF ~is_valid_message_flow(flow.from, flow.to)
            THEN Append(errors, SyntaxError(Msg("Invalid message arrow",
                                                Arrow(flow.from, <<"-", "-", ">">>, flow.to)),
                                            flow.span, "Error"))
            ELSE errors
      [] flow.flow_type = "Default" ->
            IF ~is_valid_default_flow(flow.from, node_ids)
            THEN Append(errors, SyntaxError(Msg("The default arrow can only come from the gateway",
                                                Arrow(flow.from, <<"=", ">">>, flow.to)),
                                            flow.span, "Error"))
            ELSE errors
      [] flow.flow_type = "Association" ->
            IF ~is_valid_association(flow.from, flow.to)
            THEN Append(errors, SyntaxError(Msg("Invalid associative link",
                                                Arrow(flow.from, <<".", ".", ">">>, flow.to)),
                                            flow.span, "Warning"))
            ELSE errors

\* mutant of UnknownSource: the sentinel `start` is not exempt
UnknownSource_NoSentinel(errors, flow, node_ids) ==
    IF flow.from \notin DOMAIN node_ids
    THEN Append(errors, SyntaxError(Msg("Unknown flow source", flow.from), flow.span, "Error"))
    ELSE errors

UnknownSource(errors, flow, node_ids) ==
    IF flow.from \notin DOMAIN node_ids /\ flow.from # T_start
    THEN Append(errors, SyntaxError(Msg("Unknown flow source", flow.from), flow.span, "Error"))
    ELSE errors

UnknownTarget(errors, flow, node_ids) ==
    IF flow.to \notin DOMAIN node_ids /\ flow.to # T_end
    THEN Append(errors, SyntaxError(Msg("Unknown flow target", flow.to), flow.span, "Error"))
    ELSE errors

validate_flow(errors, flow, node_ids) ==
    UnknownTarget(UnknownSource(FlowTypeCheck(errors, flow, node_ids), flow, node_ids),
                  flow, node_ids)

RECURSIVE ValidateFlows(_, _, _)
\* `for flow in &process.flows { self.validate_flow(flow, &node_ids) }`
ValidateFlows(errors, flows, node_ids) ==
    IF flows = <<>> THEN errors
    ELSE ValidateFlows(validate_flow(errors, Head(flows), node_ids), Tail(flows), node_ids)

ValidateProcess(seen, flows) == ValidateFlows(seen.errors, flows, seen.node_ids)

RECURSIVE ValidateProcesses(_, _)
\* the `for process in &document.processes` of validate
ValidateProcesses(errors, processes) ==
    IF processes = <<>> THEN errors
    ELSE ValidateProcesses(
             ValidateProcess(ValidateElements(errors, Head(processes).elements, EmptyMap),
                             Head(processes).flows),
             Tail(processes))

\* mutant of HasStart: a StartEvent inside a container counts as well
RECURSIVE HasStart_Nested(_)
HasStart_Nested(elements) ==
    \E i \in 1..Len(elements) :
        \/ elements[i].type = "StartEvent"
        \/ HasStart_Nested(NestedElements(elements[i]))

\* has_start of validate_unknown_commands
HasStart(elements) == \E i \in 1..Len(elements) : elements[i].type = "StartEvent"

RECURSIVE validate_unknown_commands(_, _)
validate_unknown_commands(errors, processes) ==
    IF processes = <<>> THEN errors
    ELSE validate_unknown_commands(
             IF ~HasStart(Head(processes).elements)
             THEN Append(errors,
                         SyntaxError(Msg("must contain at least one start event",
                                         Head(processes).name),
                                     Head(processes).span, "Warning"))
             ELSE errors,
             Tail(processes))

\* mutant of Cleared: the diagnostics of the call before stay in self.errors
Cleared_Kept(errors) == errors

\* self.errors.clear()
Cleared(errors) == <<>>

\* self.errors when validate returns
validate(errors, doc) ==
    validate_unknown_commands(ValidateProcesses(Cleared(errors), doc.processes), doc.processes)

\* Ok(()) or Err(self.errors.clone())
ValidationResult(errors) ==
    IF errors = <<>> THEN [ok |-> TRUE, errors |-> <<>>] ELSE [ok |-> FALSE, errors |-> errors]

(***************************************************************************)
(* Documents given to the validator                                        *)
(* A span is the path of its owner: <<p>> for process p, <<p, i>> for its  *)
(* i-th element, <<p, i, j>> for the j-th element inside that one, and     *)
(* <<p, 0, k>> for its k-th flow.                                          *)
(***************************************************************************)
Id_T == <<"T">>

Id_X == <<"X">>

TaskNamed(id) == [type |-> "Task", id |-> id, span |-> <<>>]

StartEvent == [type |-> "StartEvent", id |-> None, span |-> <<>>]

GatewayNamed(id) == [type |-> "Gateway", id |-> Some(id), span |-> <<>>]

\* the containers validate_element walks, around a body
ContainersOf(body) ==
    {[type |-> "Subprocess", id |-> Id_T, elements |-> body, span |-> <<>>],
     [type |-> "Pool", name |-> Id_T, elements |-> body, span |-> <<>>],
     [type |-> "Group", elements |-> body, span |-> <<>>]}

\* the number of elements of e, the nested ones counted
Size(e) == 1 + Len(NestedElements(e))

\* the elements of at most n nodes: a leaf, or a container around at most n - 1 leaves
ElementsUpTo(n) ==
    {TaskNamed(Id_T), StartEvent, GatewayNamed(Id_T)}
        \cup UNION {ContainersOf(body) : body \in SeqsUpTo({TaskNamed(Id_T), StartEvent}, n - 1)}

\* the elements of exactly k nodes
ElementsOfSize(k) == {e \in ElementsUpTo(k) : Size(e) = k}

RECURSIVE ElementSeqs(_)
\* the element lists of at most n nodes in all: empty, or an element of k nodes before a
\* list of at most n - k
ElementSeqs(n) ==
    {<<>>} \cup UNION {{<<e>> \o rest : e \in ElementsOfSize(k), rest \in ElementSeqs(n - k)} :
                       k \in 1..n}

MaxNodes == 4

MaxFlows == 1

FlowEnds == {Id_T, Id_X, T_start, T_end}

FlowForms ==
    {[from |-> f, to |-> t, flow_type |-> ft, condition |-> None, span |-> <<>>] :
        f \in FlowEnds, t \in FlowEnds, ft \in {"Sequence", "Default"}}

\* the element lists the flows are checked against: T direct, or X only inside a group
FlowHosts ==
    {<<StartEvent, TaskNamed(Id_T)>>,
     <<[type |-> "Group", elements |-> <<TaskNamed(Id_X)>>, span |-> <<>>]>>}

RECURSIVE Stamped(_, _)
\* the elements with their spans set to their paths
Stamped(elements, path) ==
    [i \in 1..Len(elements) |->
        IF elements[i].type \in {"Subprocess", "Pool", "Group"}
        THEN [elements[i] EXCEPT !.span = Append(path, i),
                                 !.elements = Stamped(elements[i].elements, Append(path, i))]
        ELSE [elements[i] EXCEPT !.span = Append(path, i)]]

ProcessAt(p, name, elements, flows) ==
    [name |-> name, elements |-> Stamped(elements, <<p>>),
     flows |-> [k \in 1..Len(flows) |-> [flows[k] EXCEPT !.span = <<p, 0, k>>]],
     span |-> <<p>>]

\* what the first process of a document holds: any element list of up to n nodes without
\* flows, or a host with up to m flows
FirstBodies(n, m) ==
    {[elements |-> es, flows |-> <<>>] : es \in ElementSeqs(n)}
        \cup {[elements |-> es, flows |-> fs] : es \in FlowHosts, fs \in SeqsUpTo(FlowForms, m)}

\* a second process that uses the ids of the first again
SecondProcesses ==
    {ProcessAt(2, <<"Q">>, es, <<>>) :
        es \in {<<TaskNamed(Id_T)>>, <<StartEvent, TaskNamed(Id_T), TaskNamed(Id_T)>>}}

DocumentOf(processes) == [imports |-> <<>>, processes |-> processes, errors |-> <<>>]

\* the document of one process P holding b, alone or before a second process
DocumentsAround(b) ==
    {DocumentOf(<<ProcessAt(1, <<"P">>, b.elements, b.flows)>> \o qs) :
        qs \in {<<>>} \cup {<<q>> : q \in SecondProcesses}}

\* the documents a validator is given after its first one
LaterDocuments ==
    {NewDocument, DocumentOf(<<ProcessAt(1, <<"P">>, <<StartEvent>>, <<>>)>>)}
        \cup {DocumentOf(<<ProcessAt(1, <<"Q">>, q.elements, <<>>)>>) : q \in SecondProcesses}

MaxCalls == 2

\* one call of SyntaxValidator::validate on doc, leaving self.errors as `after`
Validated(doc, after) ==
    /\ valDocument' = doc
    /\ valErrors' = after
    /\ valProduced' = SubSeq(after, Len(Cleared(valErrors)) + 1, Len(after))
    /\ valResult' = Some(ValidationResult(after))
    /\ valPrevious' = IF valResult = None THEN None ELSE Some(valResult[1].ok)
    /\ valCalls' = valCalls + 1
    /\ UNCHANGED besideValidator

\* the first validate call of a new validator
ValidateFirst ==
    /\ valCalls = 0
    /\ \E after \in {validate(valErrors, valDocument)} : Validated(valDocument, after)

\* a further validate call on the same validator
ValidateAgain ==
    /\ valCalls >= 1
    /\ valCalls < MaxCalls
    /\ \E doc \in LaterDocuments :
        \E after \in {validate(valErrors, doc)} : Validated(doc, after)

ValidatorNext ==
    \/ ValidateFirst
    \/ ValidateAgain

\* SyntaxValidator::new() and the document of the first call
InitValidator ==
    /\ \E b \in FirstBodies(MaxNodes, MaxFlows) : valDocument \in DocumentsAround(b)
    /\ valErrors = <<>>
    /\ valProduced = <<>>
    /\ valResult = None
    /\ valPrevious = None
    /\ valCalls = 0
    /\ ParserIdle
    /\ LexerIdle
    /\ DiagnosticsIdle

SpecValidator == InitValidator /\ [][ValidatorNext]_vars

\* the diagnostics the last validate call returned
Returned == IF valResult = None THEN <<>> ELSE valResult[1].errors

\* how often diagnostic e occurs in errs
Count(errs, e) == Cardinality({k \in 1..Len(errs) : errs[k] = e})

\* the diagnostics of errs whose message starts with text
Saying(errs, text) == {errs[k] : k \in {i \in 1..Len(errs) : errs[i].message.text = text}}

RECURSIVE Bodies(_)
\* the element lists of a process: its top level and the body of every container in it
Bodies(elements) ==
    {elements} \cup UNION {Bodies(NestedElements(elements[i])) : i \in 1..Len(elements)}

AllBodies(doc) == UNION {Bodies(doc.processes[p].elements) : p \in 1..Len(doc.processes)}

\* the places of body whose id already occurs earlier in body
Repeats(body) ==
    {i \in 1..Len(body) :
        /\ IdOpt(body[i]) # None
        /\ \E j \in 1..(i - 1) : IdOpt(body[j]) = IdOpt(body[i])}

\* one 'Duplicate node id' Error at every repeat of every body
DuplicatesOf(doc) ==
    UNION {{SyntaxError(Msg("Duplicate node id", IdOpt(body[i])[1]), body[i].span, "Error") :
                i \in Repeats(body)} : body \in AllBodies(doc)}

(***************************************************************************)
(* C5  duplicate ids are reported per container                            *)
(***************************************************************************)
\* C5: after validate, the returned diagnostics hold exactly one 'Duplicate node id' Error
\* at every occurrence of an id after its first among the direct elements of one container
\* (so k occurrences give k - 1 diagnostics, none at the first), and no other 'Duplicate
\* node id' diagnostic: the same id in a nested body, in a sibling container or in another
\* process yields none.
C5_DuplicatePerContainer ==
    valCalls > 0 =>
        /\ \A e \in DuplicatesOf(valDocument) : Count(Returned, e) = 1
        /\ Saying(Returned, "Duplicate node id") \subseteq DuplicatesOf(valDocument)

\* a validated body holds id T three times, one of them a container whose own body starts
\* with T again
C5_Witness ==
    /\ valCalls > 0
    /\ \E body \in AllBodies(valDocument) :
        /\ Cardinality({i \in 1..Len(body) : IdOpt(body[i]) = Some(Id_T)}) = 3
        /\ \E i \in 1..Len(body) :
            /\ NestedElements(body[i]) # <<>>
            /\ IdOpt(body[i]) = Some(Id_T)
            /\ IdOpt(NestedElements(body[i])[1]) = Some(Id_T)

\* the ids of the direct elements of a process
DirectIds(proc) ==
    {IdOpt(proc.elements[i])[1] : i \in {j \in 1..Len(proc.elements) : IdOpt(proc.elements[j]) # None}}

UnknownSourceOf(flow) == SyntaxError(Msg("Unknown flow source", flow.from), flow.span, "Error")

UnknownTargetOf(flow) == SyntaxError(Msg("Unknown flow target", flow.to), flow.span, "Error")

\* the flows in the flow lists of the processes of doc, each with the ids it may name
FlowsOf(doc) ==
    UNION {{[flow |-> doc.processes[p].flows[k], ids |-> DirectIds(doc.processes[p])] :
                k \in 1..Len(doc.processes[p].flows)} : p \in 1..Len(doc.processes)}

(***************************************************************************)
(* C6  flow endpoints are checked against the direct ids and a sentinel    *)
(***************************************************************************)
\* C6: after validate, a flow of a process's flow list has one 'Unknown flow source' Error
\* exactly when its source is neither the id of a direct element of that process nor
\* "start", and one 'Unknown flow target' Error exactly when its target is neither such an
\* id nor "end"; the two are decided independently, and no other such diagnostic exists.
C6_UnknownEndpoints ==
    valCalls > 0 =>
        /\ \A f \in FlowsOf(valDocument) :
            /\ Count(Returned, UnknownSourceOf(f.flow))
                 = IF f.flow.from \notin f.ids /\ f.flow.from # T_start THEN 1 ELSE 0
            /\ Count(Returned, UnknownTargetOf(f.flow))
                 = IF f.flow.to \notin f.ids /\ f.flow.to # T_end THEN 1 ELSE 0
        /\ Saying(Returned, "Unknown flow source")
             \subseteq {UnknownSourceOf(f.flow) : f \in FlowsOf(valDocument)}
        /\ Saying(Returned, "Unknown flow target")
             \subseteq {UnknownTargetOf(f.flow) : f \in FlowsOf(valDocument)}

\* a validated flow from `end` to `start`, the sentinels on the wrong sides, got both
\* diagnostics
C6_Witness ==
    /\ valCalls > 0
    /\ \E f \in FlowsOf(valDocument) :
        /\ f.flow.from = T_end
        /\ f.flow.to = T_start
        /\ Count(Returned, UnknownSourceOf(f.flow)) = 1
        /\ Count(Returned, UnknownTargetOf(f.flow)) = 1

(***************************************************************************)
(* C7  validate returns the diagnostics of this call                       *)
(***************************************************************************)
\* C7: validate returns Ok exactly when the call produced no diagnostic of any severity;
\* otherwise it returns Err with all the diagnostics of this call and nothing of an
\* earlier call on the same validator.
C7_ResultOfThisCall ==
    valCalls > 0 =>
        /\ valResult[1].ok <=> valProduced = <<>>
        /\ ~valResult[1].ok => valResult[1].errors = valProduced

\* a validator whose first call returned Err returns Ok for its second document
C7_Witness ==
    /\ valCalls = 2
    /\ valPrevious = Some(FALSE)
    /\ valResult[1].ok

\* the 'start event' Warning of a process
StartWarningOf(proc) ==
    SyntaxError(Msg("must contain at least one start event", proc.name), proc.span, "Warning")

\* the processes of doc without a StartEvent among their direct elements
Startless(doc) ==
    {p \in 1..Len(doc.processes) :
        \A i \in 1..Len(doc.processes[p].elements) :
            doc.processes[p].elements[i].type # "StartEvent"}

(***************************************************************************)
(* C8  a process without a direct StartEvent gets one Warning              *)
(***************************************************************************)
\* C8: after validate, every process has exactly one 'must contain at least one start
\* event' Warning if no direct element of it is a StartEvent, and none otherwise; a
\* StartEvent inside a subprocess, pool or group does not count.
C8_StartWarning ==
    valCalls > 0 =>
        /\ \A p \in 1..Len(valDocument.processes) :
            Count(Returned, StartWarningOf(valDocument.processes[p]))
              = IF p \in Startless(valDocument) THEN 1 ELSE 0
        /\ Saying(Returned, "must contain at least one start event")
             \subseteq {StartWarningOf(valDocument.processes[p]) : p \in Startless(valDocument)}

\* a validated process whose only StartEvent lies inside a subprocess got its Warning
C8_Witness ==
    /\ valCalls > 0
    /\ \E p \in Startless(valDocument) :
        /\ \E i \in 1..Len(valDocument.processes[p].elements) :
            /\ valDocument.processes[p].elements[i].type = "Subprocess"
            /\ HasStart(NestedElements(valDocument.processes[p].elements[i]))
        /\ Count(Returned, StartWarningOf(valDocument.processes[p])) = 1

(***************************************************************************)
(* Suggestions (diagnostics/suggestions.rs)                                *)
(* A target is known by the score strsim's jaro_winkler gives it against   *)
(* each candidate: a table from candidates to hundredths, 100 being 1.0.   *)
(***************************************************************************)
BPMN_KEYWORDS ==
    <<T_process, T_start, T_end, T_task, T_user, T_service, T_script, T_call, T_xor, T_and,
      T_event, T_pool, T_lane, T_group, T_note, T_subprocess, T_import, T_from, T_as>>

jaro_winkler(target, candidate) == IF candidate \in DOMAIN target THEN target[candidate] ELSE 0

SuggestThreshold == 60

TypoThreshold == 75

Identical == 100

KeywordLimit == 3

\* mutant of Qualifies: a score of exactly 0.6 passes the filter
Qualifies_AtThreshold(score) == score >= SuggestThreshold

\* `.filter(|(score, _)| *score > 0.6)`
Qualifies(score) == score > SuggestThreshold

\* the (score, candidate) pairs of the candidates, in their order
Scored(target, cands) ==
    [i \in 1..Len(cands) |-> [score |-> jaro_winkler(target, cands[i]), candidate |-> cands[i]]]

RECURSIVE InsertSorted(_, _)
\* x put behind every member that does not score less: sort_by is stable
InsertSorted(sorted, x) ==
    IF sorted = <<>> THEN <<x>>
    ELSE IF Head(sorted).score >= x.score THEN <<Head(sorted)>> \o InsertSorted(Tail(sorted), x)
    ELSE <<x>> \o sorted

RECURSIVE SortedByScore(_)
\* `scored.sort_by(|a, b| b.0.partial_cmp(&a.0)...)`: descending scores
SortedByScore(scored) ==
    IF scored = <<>> THEN <<>>
    ELSE InsertSorted(SortedByScore(SubSeq(scored, 1, Len(scored) - 1)), scored[Len(scored)])

\* `.take(max_suggestions).map(|(_, candidate)| candidate.to_string())`
Taken(sorted, max) ==
    [i \in 1..(IF max < Len(sorted) THEN max ELSE Len(sorted)) |-> sorted[i].candidate]

suggest_similar(target, cands, max) ==
    IF cands = <<>> THEN <<>>
    ELSE Taken(SortedByScore(SelectSeq(Scored(target, cands), LAMBDA e : Qualifies(e.score))),
               max)

suggest_keywords(target) == suggest_similar(target, BPMN_KEYWORDS, KeywordLimit)

\* the `if` of detect_keyword_typo, given the suggestions
ConfidentFirst(target, suggestions) ==
    IF suggestions # <<>> /\ jaro_winkler(target, suggestions[1]) > TypoThreshold
    THEN Some(suggestions[1])
    ELSE None

detect_keyword_typo(target) == ConfidentFirst(target, suggest_keywords(target))

is_likely_keyword_typo(target) ==
    \E i \in 1..Len(BPMN_KEYWORDS) :
        /\ jaro_winkler(target, BPMN_KEYWORDS[i]) > SuggestThreshold
        /\ jaro_winkler(target, BPMN_KEYWORDS[i]) < Identical

\* a call of suggest_similar(target, cands, max)
SuggestSimilarOf(cands, max) ==
    /\ candidates' = cands
    /\ max_suggestions' = max
    /\ suggested' = suggest_similar(similarity, cands, max)
    /\ sugPc' = "similar"
    /\ UNCHANGED besideSuggest

\* a call of detect_keyword_typo(target)
DetectKeywordTypo ==
    /\ sugPc = "idle"
    /\ suggested' = detect_keyword_typo(similarity)
    /\ sugPc' = "keyword"
    /\ UNCHANGED <<candidates, max_suggestions>>
    /\ UNCHANGED besideSuggest

MaxCandidates == 3

MaxSuggestions == 2

\* suggest_similar called with some candidates and some limit
SuggestSimilar ==
    /\ sugPc = "idle"
    /\ \E cands \in SeqsUpTo({T_start, T_task, T_as}, MaxCandidates) :
           \E max \in 0..MaxSuggestions : SuggestSimilarOf(cands, max)

SuggestNext ==
    \/ SuggestSimilar
    \/ DetectKeywordTypo

\* the keywords the targets of the runs resemble at all
Resembled == {T_process, T_start, T_task, T_as}

\* the targets: every way to score the resembled keywords at or around the two thresholds
Targets == [Resembled -> {60, 61, 75, 76}]

InitSuggest ==
    /\ similarity \in Targets
    /\ SuggestIdle
    /\ ContextIdle
    /\ ParserIdle
    /\ LexerIdle
    /\ ValidatorIdle

SpecSuggest == InitSuggest /\ [][SuggestNext]_vars

\* candidate i comes before candidate k in the ranking: a higher score, or the same score
\* and an earlier place in candidates
Outranks(i, k) ==
    \/ jaro_winkler(similarity, candidates[i]) > jaro_winkler(similarity, candidates[k])
    \/ /\ jaro_winkler(similarity, candidates[i]) = jaro_winkler(similarity, candidates[k])
       /\ i < k

\* the suggestions are the candidates at places pos, in ranking order, none passed over
RankedAt(pos) ==
    /\ \A i \in 1..Len(suggested) :
        /\ candidates[pos[i]] = suggested[i]
        /\ jaro_winkler(similarity, suggested[i]) > 60
    /\ \A i, j \in 1..Len(suggested) : i < j => Outranks(pos[i], pos[j])
    /\ \A k \in 1..Len(candidates) :
        (jaro_winkler(similarity, candidates[k]) > 60 /\ \A i \in 1..Len(suggested) : pos[i] # k)
            => \A i \in 1..Len(suggested) : Outranks(pos[i], k)

\* the highest score any keyword gets
BestScore ==
    CHOOSE b \in {jaro_winkler(similarity, BPMN_KEYWORDS[i]) : i \in 1..Len(BPMN_KEYWORDS)} :
        \A i \in 1..Len(BPMN_KEYWORDS) : jaro_winkler(similarity, BPMN_KEYWORDS[i]) <= b

\* the first keyword of the list that gets the highest score
FirstBest ==
    BPMN_KEYWORDS[CHOOSE i \in 1..Len(BPMN_KEYWORDS) :
        /\ jaro_winkler(similarity, BPMN_KEYWORDS[i]) = BestScore
        /\ \A j \in 1..(i - 1) : jaro_winkler(similarity, BPMN_KEYWORDS[j]) < BestScore]

(***************************************************************************)
(* C10  what suggest_similar and detect_keyword_typo return                *)
(***************************************************************************)
\* C10: suggest_similar returns at most max_suggestions strings, each a candidate scoring
\* strictly above 0.6, in non-increasing score order with equal scores in candidate order,
\* and passes over no qualifying candidate in favour of a lower-ranked one (a qualifying
\* candidate is left out only when the limit is reached); detect_keyword_typo returns a
\* keyword only when the highest keyword score is strictly above 0.75, and then the first
\* keyword with that score.
C10_SuggestionsRanked ==
    /\ sugPc = "similar" =>
        /\ Len(suggested) <= max_suggestions
        /\ \E pos \in [1..Len(suggested) -> 1..Len(candidates)] :
            /\ RankedAt(pos)
            /\ (\E k \in 1..Len(candidates) :
                    /\ jaro_winkler(similarity, candidates[k]) > 60
                    /\ \A i \in 1..Len(suggested) : pos[i] # k)
                => Len(suggested) = max_suggestions
    /\ sugPc = "keyword" =>
        suggested = IF BestScore > 75 THEN Some(FirstBest) ELSE None

\* suggest_similar returned two candidates of equal score, in candidate order, and left a
\* third qualifying candidate out because of the limit
C10_Witness ==
    /\ sugPc = "similar"
    /\ max_suggestions = 2
    /\ Len(candidates) = 3
    /\ \A k \in 1..3 : jaro_winkler(similarity, candidates[k]) = 61
    /\ candidates[1] # candidates[2]
    /\ suggested = <<candidates[1], candidates[2]>>

(***************************************************************************)
(* ContextValidator (diagnostics/context_validator.rs)                     *)
(* self.errors is threaded through the operators as their first argument;  *)
(* token indices are 0-based, as in the code.                              *)
(***************************************************************************)
DiagnosticUnexpectedToken(found, expected, span, suggestions) ==
    [variant |-> "UnexpectedToken", found |-> found, expected |-> expected, span |-> span,
     suggestions |-> suggestions]

DiagnosticSyntaxError(message, span, severity, suggestions) ==
    [variant |-> "SyntaxError", message |-> message, span |-> span, severity |-> severity,
     suggestions |-> suggestions]

FlowOperators == {"SequenceFlow", "MessageFlow", "DefaultFlow", "Association"}

TextAt(ts, i, text) == i < Len(ts) /\ At(ts, i).text = text

is_contextual_identifier(ts, index) ==
    \/ KindAt(ts, index + 1, {"LeftParen"})
    \/ index > 0 /\ KindAt(ts, index - 1, FlowOperators)
    \/ KindAt(ts, index + 1, FlowOperators)
    \/ TextAt(ts, index + 1, <<"-">>)

RECURSIVE StartBehind(_, _)
\* the backward scan of is_statement_start, standing behind token i (i tokens are left)
StartBehind(ts, i) ==
    IF i = 0 THEN FALSE
    ELSE IF At(ts, i - 1).kind \in {"LeftBrace", "RightBrace", "Newline"} THEN TRUE
    ELSE IF At(ts, i - 1).kind \in {"Identifier", "StringLiteral", "NumberLiteral"}
         THEN StartBehind(ts, i - 1)
    ELSE FALSE

is_statement_start(ts, index) == IF index = 0 THEN TRUE ELSE StartBehind(ts, index)

\* the `if let Some(suggestion) ... else if is_likely_keyword_typo` of check_identifier_typo
TypoDiagnostic(errors, target, token, typo) ==
    IF typo # None
    THEN Append(errors,
                DiagnosticUnexpectedToken(token.text, Msg("keyword (did you mean ?)", typo[1]),
                                          token.span, <<typo[1]>>))
    ELSE IF is_likely_keyword_typo(target)
    THEN Append(errors,
                DiagnosticUnexpectedToken(token.text, Msg("BPMN keyword", <<>>), token.span,
                                          suggest_keywords(target)))
    ELSE errors

check_identifier_typo(errors, target, ts, index) ==
    IF is_contextual_identifier(ts, index) THEN errors
    ELSE IF is_statement_start(ts, index)
    THEN TypoDiagnostic(errors, target, At(ts, index), detect_keyword_typo(target))
    ELSE errors

check_unknown_token(errors, token) ==
    IF token.text \in {<<"<">>, <<">">>, <<"=">>, <<"!">>, <<"&">>, <<"|">>} THEN errors
    ELSE Append(errors, DiagnosticSyntaxError(Msg("Unknown token", token.text), token.span,
                                              "Error", <<>>))

RECURSIVE TokenLoop(_, _, _, _)
\* the `for (i, token) in tokens.iter().enumerate()` of validate_tokens, from index i
TokenLoop(errors, target, ts, i) ==
    IF i >= Len(ts) THEN errors
    ELSE TokenLoop(CASE At(ts, i).kind = "Identifier" -> check_identifier_typo(errors, target, ts, i)
                     [] At(ts, i).kind = "Unknown" -> check_unknown_token(errors, At(ts, i))
                     [] OTHER -> errors,
                   target, ts, i + 1)

looks_like_flow_context(ts, index) ==
    /\ index > 0
    /\ KindAt(ts, index - 1, {"Identifier"})
    /\ KindAt(ts, index + 1, {"Identifier"})

RECURSIVE FlowSyntaxLoop(_, _, _)
\* the loop of check_flow_syntax, from index i
FlowSyntaxLoop(errors, ts, i) ==
    IF i >= Len(ts) THEN errors
    ELSE FlowSyntaxLoop(
             IF /\ At(ts, i).text = <<"-">>
                /\ ~TextAt(ts, i + 1, <<">">>)
                /\ looks_like_flow_context(ts, i)
             THEN Append(errors,
                         DiagnosticSyntaxError(Msg("Invalid flow operator: use '->' for sequence flow",
                                                   <<>>),
                                               At(ts, i).span, "Error", <<<<"-", ">">>>>))
             ELSE errors,
             ts, i + 1)

check_flow_syntax(errors, ts) == FlowSyntaxLoop(errors, ts, 0)

TriviaAhead == {"Newline", "CarriageReturnNewline", "LineComment", "BlockComment"}

RECURSIVE find_next_significant_token(_, _)
find_next_significant_token(ts, start) ==
    IF start >= Len(ts) THEN None
    ELSE IF At(ts, start).kind \in TriviaAhead THEN find_next_significant_token(ts, start + 1)
    ELSE Some(start)

ConditionsAhead == 10

RECURSIVE AheadLoop(_, _, _)
\* the loop of has_gateway_conditions_ahead, from index i up to stop
AheadLoop(ts, i, stop) ==
    IF i >= stop THEN FALSE
    ELSE IF At(ts, i).kind \in {"LeftBracket", "DefaultFlow"} THEN TRUE
    ELSE IF At(ts, i).kind = "RightBrace" THEN FALSE
    ELSE AheadLoop(ts, i + 1, stop)

has_gateway_conditions_ahead(ts, start) ==
    AheadLoop(ts, start,
              IF Len(ts) < start + ConditionsAhead THEN Len(ts) ELSE start + ConditionsAhead)

RECURSIVE ClosingLoop(_, _, _, _)
\* the loop of find_gateway_closing_brace, from index i
ClosingLoop(ts, i, brace_count, found_gateway_content) ==
    IF i >= Len(ts) THEN None
    ELSE CASE At(ts, i).kind = "LeftBrace" ->
                ClosingLoop(ts, i + 1, brace_count + 1, found_gateway_content)
           [] At(ts, i).kind = "RightBrace" ->
                IF brace_count - 1 = 0
                THEN (IF found_gateway_content THEN Some(i) ELSE None)
                ELSE ClosingLoop(ts, i + 1, brace_count - 1, found_gateway_content)
           [] At(ts, i).kind \in {"LeftBracket", "DefaultFlow", "SequenceFlow"} ->
                ClosingLoop(ts, i + 1, brace_count, found_gateway_content \/ brace_count = 1)
           [] At(ts, i).kind \in {"Xor", "And", "Task", "User", "Service", "Script", "End"} ->
                IF brace_count = 1 THEN None
                ELSE ClosingLoop(ts, i + 1, brace_count, found_gateway_content)
           [] OTHER -> ClosingLoop(ts, i + 1, brace_count, found_gateway_content)

find_gateway_closing_brace(ts, open_idx) ==
    IF At(ts, open_idx).kind # "LeftBrace" THEN None ELSE ClosingLoop(ts, open_idx + 1, 1, FALSE)

\* j of check_gateway_braces: behind the gateway keyword, its name and its `?`
GatewayHead(ts, gateway_index) ==
    IF KindAt(ts, gateway_index + 1, {"Identifier"})
    THEN (IF KindAt(ts, gateway_index + 2, {"Question"}) THEN gateway_index + 3
          ELSE gateway_index + 2)
    ELSE IF KindAt(ts, gateway_index + 1, {"Question"}) THEN gateway_index + 2
    ELSE gateway_index + 1

\* gateway_span: from the keyword's start to the end of the last token of the head
GatewaySpan(ts, gateway_index, j) ==
    [start |-> At(ts, gateway_index).span.start, end |-> At(ts, j - 1).span.end]

GatewayName(ts, gateway_index) ==
    IF At(ts, gateway_index).kind = "Xor" THEN <<"X", "O", "R">> ELSE <<"A", "N", "D">>

\* the `if has_opening_brace ... else if has_gateway_conditions_ahead` of check_gateway_braces
BraceDiagnostic(errors, ts, gateway_index, j, open) ==
    IF open # None /\ KindAt(ts, open[1], {"LeftBrace"})
    THEN (IF find_gateway_closing_brace(ts, open[1]) # None THEN errors
          ELSE Append(errors,
                      DiagnosticSyntaxError(Msg("gateway missing closing brace '}'",
                                                GatewayName(ts, gateway_index)),
                                            GatewaySpan(ts, gateway_index, j), "Error",
                                            <<<<"}">>>>)))
    ELSE IF has_gateway_conditions_ahead(ts, j)
    THEN Append(errors,
                DiagnosticSyntaxError(Msg("gateway missing opening brace '{' before conditions",
                                          GatewayName(ts, gateway_index)),
                                      GatewaySpan(ts, gateway_index, j), "Error", <<<<"{">>>>))
    ELSE errors

check_gateway_braces(errors, ts, gateway_index) ==
    BraceDiagnostic(errors, ts, gateway_index, GatewayHead(ts, gateway_index),
                    find_next_significant_token(ts, GatewayHead(ts, gateway_index)))

RECURSIVE BracesLoop(_, _, _)
\* the loop of check_missing_braces, from index i
BracesLoop(errors, ts, i) ==
    IF i >= Len(ts) THEN errors
    ELSE BracesLoop(IF At(ts, i).kind \in {"Xor", "And"} THEN check_gateway_braces(errors, ts, i)
                    ELSE errors,
                    ts, i + 1)

check_missing_braces(errors, ts) == BracesLoop(errors, ts, 0)

\* self.errors when validate_tokens returns; target is the text of the Identifier tokens
\* (self.errors.clear() comes first: the loops start from no diagnostics)
validate_tokens(errors, target, ts) ==
    check_missing_braces(check_flow_syntax(TokenLoop(<<>>, target, ts, 0), ts), ts)

\* one call of ContextValidator::validate_tokens
ValidateTokens ==
    /\ ctxCalls = 0
    /\ \E after \in {validate_tokens(ctxErrors, similarity, ctxTokens)} :
        /\ ctxErrors' = after
        /\ ctxResult' = Some(after)
    /\ ctxCalls' = ctxCalls + 1
    /\ UNCHANGED ctxTokens
    /\ UNCHANGED besideContext

ContextNext == ValidateTokens

\* unit-width spans: token i covers offsets i - 1 to i
UnitSpans(ts) ==
    [i \in 1..Len(ts) |->
        [kind |-> ts[i].kind, text |-> ts[i].text, span |-> [start |-> i - 1, end |-> i]]]

tkCarriageReturnNewline == Tk("CarriageReturnNewline", <<"\r", "\n">>)

tkMinus == Tk("Unknown", <<"-">>)

tkGreater == Tk("Unknown", <<">">>)

MaxTokens == 3

ContextTokenForms ==
    {Ident(<<"x">>), tkLeftParen, tkSequenceFlow, tkMinus, tkGreater, tkNewline,
     tkCarriageReturnNewline, tkLeftBrace, tkRightBrace, tkTask, tkXor, tkLeftBracket}

\* targets no keyword resembles, one keyword resembles closely, all resemble weakly
TypicalTargets ==
    {[k \in Resembled |-> 60], [k \in Resembled |-> IF k = T_task THEN 76 ELSE 60],
     [k \in Resembled |-> 61]}

\* every way to score the resembled keywords at or around the thresholds, or as identical
ContextTargets == [Resembled -> {60, 61, 75, 76, 100}]

\* token streams as tokenize returns them (closed by Eof), with the target the identifier
\* `x` stands for
ContextInputs(n) ==
    {[tokens |-> ts \o <<Eof>>, target |-> t] :
        ts \in SeqsUpTo(ContextTokenForms, n), t \in TypicalTargets}
    \cup {[tokens |-> <<tkLeftBrace, Ident(<<"x">>), Eof>>, target |-> t] : t \in ContextTargets}

\* ContextValidator::new and the tokens of the call
InitContext ==
    /\ \E i \in ContextInputs(MaxTokens) : ctxTokens = UnitSpans(i.tokens) /\ similarity = i.target
    /\ ctxErrors = <<>>
    /\ ctxResult = None
    /\ ctxCalls = 0
    /\ SuggestIdle
    /\ ParserIdle
    /\ LexerIdle
    /\ ValidatorIdle

SpecContext == InitContext /\ [][ContextNext]_vars

\* the token at index i stands in a contextual position
Contextual(ts, i) ==
    \/ KindAt(ts, i + 1, {"LeftParen"})
    \/ TextAt(ts, i + 1, <<"-">>)
    \/ i > 0 /\ KindAt(ts, i - 1, FlowOperators)
    \/ KindAt(ts, i + 1, FlowOperators)

\* the token at index i stands at statement start: it is the first token, or only
\* identifiers, strings and numbers lie between it and the nearest `{`, `}` or newline
\* before it
StatementStart(ts, i) ==
    \/ i = 0
    \/ \E b \in 0..(i - 1) :
        /\ At(ts, b).kind \in {"LeftBrace", "RightBrace", "Newline", "CarriageReturnNewline"}
        /\ \A m \in (b + 1)..(i - 1) :
            At(ts, m).kind \in {"Identifier", "StringLiteral", "NumberLiteral"}

\* the UnexpectedToken diagnostics returned for the token at index i
UnexpectedAt(ts, i) ==
    {k \in 1..Len(ctxResult[1]) :
        /\ ctxResult[1][k].variant = "UnexpectedToken"
        /\ ctxResult[1][k].span = At(ts, i).span}

Keywords == {BPMN_KEYWORDS[i] : i \in 1..Len(BPMN_KEYWORDS)}

\* what the claim lets validate_tokens return for the Identifier at index i
TypoReported(ts, i) ==
    IF Contextual(ts, i) \/ ~StatementStart(ts, i) THEN UnexpectedAt(ts, i) = {}
    ELSE IF BestScore > 75
    THEN \E k \in 1..Len(ctxResult[1]) :
            /\ UnexpectedAt(ts, i) = {k}
            /\ ctxResult[1][k].suggestions = <<FirstBest>>
    ELSE IF \E w \in Keywords : jaro_winkler(similarity, w) > 60 /\ jaro_winkler(similarity, w) < 100
    THEN \E k \in 1..Len(ctxResult[1]) :
            /\ UnexpectedAt(ts, i) = {k}
            /\ Len(ctxResult[1][k].suggestions) \in 1..3
            /\ \A n \in 1..Len(ctxResult[1][k].suggestions) :
                ctxResult[1][k].suggestions[n] \in Keywords
    ELSE UnexpectedAt(ts, i) = {}

(***************************************************************************)
(* C9  identifier typos are reported at statement start                    *)
(***************************************************************************)
\* C9: validate_tokens returns an UnexpectedToken diagnostic only for an Identifier token
\* that is not in a contextual position and is at statement start; for such a token the
\* diagnostic suggests exactly the best-scoring keyword if that scores above 0.75, else
\* carries 1 to 3 keyword suggestions if some keyword scores above 0.6 and below 1.0, and
\* there is no diagnostic if no keyword scores above 0.6.
C9_TypoAtStatementStart ==
    ctxCalls > 0 =>
        /\ \A i \in 0..(Len(ctxTokens) - 1) :
            IF At(ctxTokens, i).kind = "Identifier" THEN TypoReported(ctxTokens, i)
            ELSE UnexpectedAt(ctxTokens, i) = {}

(***************************************************************************)
(* C12  A process whose body runs into the end of the token stream         *)
(***************************************************************************)
\* how many diagnostics of errs say text
Said(errs, text) == Cardinality({k \in 1..Len(errs) : errs[k].message.text = text})

\* the step that ends a process body at the end of the stream keeps the process with
\* all it holds and records one more missing-brace Error
C12_StepUnclosed ==
    (pc = "body" /\ pc' = "processes" /\ ~check_token(tokens, position, "RightBrace")) =>
        /\ document'.processes = Append(document.processes, process)
        /\ Said(recovery', "Missing closing brace for process")
              = Said(recovery, "Missing closing brace for process") + 1
        /\ recovery'[Len(recovery')].severity = "Error"

\* C12: when the token stream ends before the closing brace of a process body,
\* parse_with_recovery still appends the process to Document.processes with every
\* element and flow obtained so far, and records exactly one Error 'Missing
\* closing brace for process' for it, which the returned Document carries.
C12_UnclosedProcessKept ==
    /\ [][C12_StepUnclosed]_vars
    /\ [](pc = "done" =>
            /\ Said(document.errors, "Missing closing brace for process")
                  = Said(recovery, "Missing closing brace for process")
            /\ Said(document.errors, "Missing closing brace for process")
                  <= Len(document.processes))

\* a returned document whose one process holds an element and a flow and ended unclosed
C12_Witness ==
    /\ pc = "done"
    /\ Len(document.processes) = 1
    /\ Len(document.processes[1].elements) > 0
    /\ Len(document.processes[1].flows) > 0
    /\ Said(document.errors, "Missing closing brace for process") = 1
    /\ ~is_at_end(tokens, 0) /\ is_at_end(tokens, position)

(***************************************************************************)
(* Documents of several top-level statements, some of which fail           *)
(***************************************************************************)
Statement(form, ok, name, toks) == [form |-> form, ok |-> ok, name |-> name, tokens |-> toks]

\* process statements: without a name, without `{`, and well-formed ones
ProcessStatements ==
    {Statement("nameless", FALSE, <<>>, <<tkProcess, tkLeftBrace, tkStart, tkRightBrace>>),
     Statement("nameless_empty", FALSE, <<>>, <<tkProcess, tkLeftBrace, tkRightBrace>>),
     Statement("braceless", FALSE, <<"P">>, <<tkProcess, Ident(<<"P">>), tkStart, tkRightBrace>>),
     Statement("process", TRUE, <<"Q">>,
               <<tkProcess, Ident(<<"Q">>), tkLeftBrace, tkStart, tkRightBrace>>),
     Statement("process", TRUE, <<"R">>, <<tkProcess, Ident(<<"R">>), tkLeftBrace, tkRightBrace>>)}

\* an import without its `from`
FailedImport == Statement("import", FALSE, <<>>, <<tkImport, Ident(<<"x">>)>>)

MaxStatements == 3

\* up to n process statements, behind a failed import or not
StatementLists(n) ==
    {i \o ps : i \in {<<>>, <<FailedImport>>}, ps \in SeqsUpTo(ProcessStatements, n)}

\* the statements one per line, closed by Eof
StatementTokens(sts) ==
    Flatten([k \in 1..Len(sts) |-> sts[k].tokens \o <<tkNewline>>]) \o <<Eof>>

TopLevelInputs(n) ==
    {[written |-> [family |-> "toplevel", statements |-> sts], tokens |-> StatementTokens(sts)] :
        sts \in StatementLists(n)}

InitTopLevel == ParserInit(TopLevelInputs(MaxStatements))

SpecTopLevel == InitTopLevel /\ [][Next]_vars

\* the offset at which statement j of sts starts
StartOf(sts, j) == Len(StatementTokens(SubSeq(sts, 1, j - 1))) - 1

\* a process of that name whose span starts at that offset
HoldsProcess(doc, name, start) ==
    \E k \in 1..Len(doc.processes) :
        doc.processes[k].name = name /\ doc.processes[k].span = start

(***************************************************************************)
(* C13  A failed top-level statement does not abort the document           *)
(***************************************************************************)
\* C13: when a top-level import or process statement fails, parse_with_recovery
\* records an Error and every well-formed process statement that starts later in
\* the token stream still appears in Document.processes.
C13_LaterProcessesKept ==
    pc = "done" =>
        \A i \in 1..Len(written.statements) :
            ~written.statements[i].ok =>
                /\ \E e \in 1..Len(document.errors) : document.errors[e].severity = "Error"
                /\ \A j \in (i + 1)..Len(written.statements) :
                      written.statements[j].ok =>
                          HoldsProcess(document, written.statements[j].name,
                                       StartOf(written.statements, j))

(***************************************************************************)
(* Process bodies with nested containers                                   *)
(***************************************************************************)
tkSubprocess == Tk("Subprocess", T_subprocess)

tkPool == Tk("Pool", T_pool)

tkLane == Tk("Lane", T_lane)

tkGroup == Tk("Group", T_group)

Piece(name, opens, toks) == [name |-> name, opens |-> opens, tokens |-> toks]

\* what a body is written from: the openings of the containers, a closing brace, an
\* element, a task without its id, a flow without its target, and a lone identifier
Pieces ==
    {Piece("subprocess", 1, <<tkSubprocess, Ident(<<"S">>), tkLeftBrace>>),
     Piece("pool", 1, <<tkPool, Ident(<<"L">>), tkLeftBrace>>),
     Piece("pool_lane", 2, <<tkPool, Ident(<<"L">>), tkLeftBrace, tkLane, Ident(<<"M">>), tkLeftBrace>>),
     Piece("group", 1, <<tkGroup, tkString, tkLeftBrace>>),
     Piece("close", -1, <<tkRightBrace>>),
     Piece("start", 0, <<tkStart>>),
     Piece("task", 0, <<tkTask>>),
     Piece("flow_from", 0, <<Ident(<<"A">>), tkSequenceFlow>>),
     Piece("identifier", 0, <<Ident(<<"A">>)>>)}

MaxPieces == 3

RECURSIVE Depth(_)
\* how many braces the pieces leave open
Depth(ps) == IF ps = <<>> THEN 0 ELSE Depth(SubSeq(ps, 1, Len(ps) - 1)) + ps[Len(ps)].opens

RECURSIVE Closers(_)
Closers(n) == IF n <= 0 THEN <<>> ELSE <<tkRightBrace>> \o Closers(n - 1)

\* how a text ends: where the pieces end, with every open brace closed, or with a second
\* process after that
Endings == {"open", "closed", "second"}

\* two imports, `process P {`, the pieces and the ending, closed by Eof
NestedTokens(ps, ending) ==
    <<tkImport, tkString, tkNewline, tkImport, tkString, tkNewline,
      tkProcess, Ident(<<"P">>), tkLeftBrace>>
    \o Flatten([k \in 1..Len(ps) |-> ps[k].tokens])
    \o (IF ending = "open" THEN <<>> ELSE Closers(Depth(ps) + 1))
    \o (IF ending = "second"
        THEN <<tkProcess, Ident(<<"Q">>), tkLeftBrace, tkStart, tkRightBrace>> ELSE <<>>)
    \o <<Eof>>

NestedInputs(n) ==
    {[written |-> [family |-> "nested", pieces |-> [k \in 1..Len(ps) |-> ps[k].name],
                   ending |-> e],
      tokens |-> NestedTokens(ps, e)] : ps \in SeqsUpTo(Pieces, n), e \in Endings}

InitNested == ParserInit(NestedInputs(MaxPieces))

SpecNested == InitNested /\ [][Next]_vars

(***************************************************************************)
(* C14  Every list of the document is in source order                      *)
(***************************************************************************)
\* the start offsets of the spans rise strictly along the list
Rising(list) == \A k \in 1..(Len(list) - 1) : list[k].span < list[k + 1].span

FlowsOrNone(x) == IF "flows" \in DOMAIN x THEN x.flows ELSE <<>>

LanesOrNone(x) == IF "lanes" \in DOMAIN x THEN x.lanes ELSE <<>>

ElementsOrNone(x) == IF "elements" \in DOMAIN x THEN x.elements ELSE <<>>

RECURSIVE InSourceOrder(_)
\* the lists of container x, and of every container inside it, rise
InSourceOrder(x) ==
    /\ Rising(ElementsOrNone(x))
    /\ Rising(FlowsOrNone(x))
    /\ \A k \in 1..Len(ElementsOrNone(x)) : InSourceOrder(x.elements[k])
    /\ \A k \in 1..Len(LanesOrNone(x)) : InSourceOrder(x.lanes[k])

\* C14: in every Document returned by parse_with_recovery, imports, processes, and
\* the elements list and the flows list of every container (process, subprocess,
\* pool, lane, group) are in source order: the start offsets of their spans are
\* strictly increasing along each list, whether an entry came from the grammar
\* parser or from the recovery engine.
C14_SourceOrder ==
    pc = "done" =>
        /\ Rising(document.imports)
        /\ Rising(document.processes)
        /\ \A k \in 1..Len(document.processes) : InSourceOrder(document.processes[k])


\* a returned document of two imports and two processes, the first of which holds a
\* task from the recovery engine and a subprocess that holds an element
C14_Witness ==
    /\ pc = "done"
    /\ Len(document.imports) = 2
    /\ Len(document.processes) = 2
    /\ Len(document.processes[1].elements) >= 2
    /\ \E k \in 1..Len(document.processes[1].elements) :
          /\ document.processes[1].elements[k].type = "Task"
          /\ document.processes[1].elements[k].id = TaskPlaceholder(document.processes[1].elements[k].span)
    /\ \E k \in 1..Len(document.processes[1].elements) :
          /\ document.processes[1].elements[k].type = "Subprocess"
          /\ Len(document.processes[1].elements[k].elements) > 0

(***************************************************************************)
(* Parser functions called on their own: the cursor stands at position in  *)
(* tokens, the function is applied once and what it returned is kept in    *)
(* outcome, with the cursor it started from in entered.                    *)
(***************************************************************************)
UnitInit(inputs, call) ==
    /\ \E i \in inputs :
          written = i.written /\ tokens = WithSpans(i.tokens) /\ position = i.position
    /\ pc = call
    /\ document = NewDocument
    /\ recovery = <<>>
    /\ process = NoProcess
    /\ entered = 0
    /\ iters = 0
    /\ lastPath = "none"
    /\ outcome = None
    /\ returnedDocuments = <<>>
    /\ LexerIdle
    /\ ValidatorIdle
    /\ DiagnosticsIdle

\* one call of Parser::parse_attribute_value
ParseAttributeValue ==
    /\ pc = "parse_attribute_value"
    /\ \E r \in {parse_attribute_value(tokens, position)} :
          /\ outcome' = Some(r)
          /\ position' = r.pos
    /\ entered' = position
    /\ pc' = "returned"
    /\ UNCHANGED <<written, tokens, document, recovery, process, iters, lastPath,
                   returnedDocuments>>
    /\ UNCHANGED besideParser

MaxSuffix == 2

\* number literals as the lexer's rule [0-9]+(\.[0-9]+)?[a-zA-Z]* yields them, with the
\* number their digits denote
NumberForms(n) ==
    {[token |-> Tk("NumberLiteral", w.text \o f.text \o sfx), whole |-> w.n, frac |-> f.digits,
      suffix |-> sfx] :
        w \in {[text |-> <<"3">>, n |-> 3], [text |-> <<"3", "0">>, n |-> 30]},
        f \in {[text |-> <<>>, digits |-> <<>>], [text |-> <<".", "5">>, digits |-> <<"5">>],
               [text |-> <<".", "5", "0">>, digits |-> <<"5">>]},
        sfx \in SeqsUpTo({"m", "s", "h", "x"}, n)}

\* string literals with the text they denote
StringForms ==
    {[token |-> Tk("StringLiteral", <<"\"", "b", "o", "b", "\"">>), text |-> <<"b", "o", "b">>],
     [token |-> Tk("StringLiteral", <<"\"", "\"">>), text |-> <<>>],
     [token |-> Tk("StringLiteral", <<"\"", "a", "\\", "\"", "b", "\"">>), text |-> <<"a", "\"", "b">>],
     [token |-> Tk("StringLiteral", <<"\"", "a", "\\", "n", "\"">>), text |-> <<"a", "\n">>]}

IdentifierForms ==
    {[token |-> Ident(T_true)], [token |-> Ident(T_false)], [token |-> Ident(<<"b", "o", "b">>)],
     [token |-> Ident(<<"T", "r", "u", "e">>)], [token |-> Ident(<<"m", "s">>)]}

OtherForms ==
    {[token |-> t] : t \in {tkLeftParen, tkRightParen, tkComma, tkEquals, tkTask, tkNewline, Eof}}

\* the value token alone, or behind `k =` and before `)`
ValueContexts(form) ==
    {[written |-> form, tokens |-> <<form.token>>, position |-> 0],
     [written |-> form, position |-> 2,
      tokens |-> <<Ident(<<"k">>), tkEquals, form.token, tkRightParen, Eof>>]}

ValueInputs(n) ==
    UNION {ValueContexts(form) : form \in NumberForms(n)}
    \cup UNION {ValueContexts(form) : form \in StringForms}
    \cup UNION {ValueContexts(form) : form \in IdentifierForms}
    \cup UNION {ValueContexts(form) : form \in OtherForms}

InitValue == UnitInit(ValueInputs(MaxSuffix), "parse_attribute_value")

SpecValue == InitValue /\ [][ParseAttributeValue]_vars

(***************************************************************************)
(* C15  How parse_attribute_value classifies its token                     *)
(***************************************************************************)
\* the text ends in one of the unit letters
EndsInUnit(text) == Len(text) > 0 /\ text[Len(text)] \in {"m", "s", "h"}

\* C15: a string literal gives String (unescaped); a number literal whose text
\* ends in a unit letter m, s or h (ms included) gives Duration holding the raw
\* text; any other number literal gives Number when its text is a valid decimal
\* number and an InvalidAttributeValue error otherwise; the identifier true or
\* false gives Boolean; any other identifier gives String holding it verbatim;
\* any other token gives an UnexpectedToken error; on success the cursor has
\* advanced by exactly one token.
C15_ValueClassified ==
    pc = "returned" =>
        LET tok == tokens[entered + 1]
            r == outcome[1]
        IN  /\ r.ok => position = entered + 1
            /\ CASE tok.kind = "StringLiteral" ->
                      r.ok /\ r.val = [type |-> "String", text |-> written.text]
                 [] tok.kind = "NumberLiteral" /\ EndsInUnit(tok.text) ->
                      r.ok /\ r.val = [type |-> "Duration", text |-> tok.text]
                 [] tok.kind = "NumberLiteral" /\ ~EndsInUnit(tok.text) /\ written.suffix = <<>> ->
                      /\ r.ok
                      /\ r.val = [type |-> "Number",
                                  num |-> [whole |-> written.whole, frac |-> written.frac]]
                 [] tok.kind = "NumberLiteral" /\ ~EndsInUnit(tok.text) /\ written.suffix # <<>> ->
                      ~r.ok /\ r.err.kind = "InvalidAttributeValue" /\ r.err.value = tok.text
                 [] tok.kind = "Identifier" /\ tok.text \in {T_true, T_false} ->
                      r.ok /\ r.val = [type |-> "Boolean", flag |-> (tok.text = T_true)]
                 [] tok.kind = "Identifier" /\ tok.text \notin {T_true, T_false} ->
                      r.ok /\ r.val = [type |-> "String", text |-> tok.text]
                 [] OTHER -> ~r.ok /\ r.err.kind = "UnexpectedToken"

\* the call returned Duration for a number literal that ends in `ms`, one token on
C15_Witness ==
    /\ pc = "returned"
    /\ outcome[1].ok
    /\ outcome[1].val.type = "Duration"
    /\ EndsWith2(tokens[entered + 1].text, "m", "s")
    /\ entered = 2
    /\ position = 3


(***************************************************************************)
(* C16  Dropped tokens and the diagnostic list                             *)
(***************************************************************************)
\* piece k is a lone identifier written as the first token of a container body: no
\* element before it can take it as its id, and no piece after it begins with an arrow
\* that would make it the source of a flow
DroppedIdentifier(ps, k) ==
    /\ k > 1
    /\ ps[k] = "identifier"
    /\ ps[k - 1] \in {"subprocess", "pool", "pool_lane", "group"}

\* the identifier is named by no node and no flow of x or of a container inside x
RECURSIVE Unnamed(_, _)
Unnamed(x, name) ==
    /\ \A k \in 1..Len(FlowsOrNone(x)) : x.flows[k].from # name /\ x.flows[k].to # name
    /\ \A k \in 1..Len(ElementsOrNone(x)) :
          /\ ("id" \in DOMAIN x.elements[k] => x.elements[k].id \notin {name, Some(name)})
          /\ Unnamed(x.elements[k], name)
    /\ \A k \in 1..Len(LanesOrNone(x)) : Unnamed(x.lanes[k], name)

\* C16: the diagnostic list of parse_with_recovery is complete with respect to
\* dropped input: whenever a token inside a process is discarded without being
\* represented in the AST, in the process's own body or in a nested subprocess,
\* pool, lane or group body, Document.errors holds at least one diagnostic; an
\* unexpected token inside a nested container body never yields an empty list.
C16_DroppedTokensReported ==
    (/\ pc = "done"
     /\ written.family = "nested"
     /\ \E k \in 1..Len(written.pieces) : DroppedIdentifier(written.pieces, k)
     /\ \A k \in 1..Len(document.processes) : Unnamed(document.processes[k], <<"A">>))
        => document.errors # <<>>


(***************************************************************************)
(* C17  The four attempts of one pass of the body loop                     *)
(***************************************************************************)
\* which attempt, made at cursor p, is the first to succeed
FirstSuccess(ts, p) ==
    IF parse_process_element(ts, p).ok THEN "element"
    ELSE IF parse_flow(ts, p).ok THEN "flow"
    ELSE IF recover_process_element(ts, p).some THEN "recovered_element"
    ELSE IF recover_flow(ts, p).some THEN "recovered_flow"
    ELSE "skipped"

\* what the first successful attempt made at cursor p obtained, and where it ended
Obtained(ts, p) ==
    CASE FirstSuccess(ts, p) = "element" ->
            [elements |-> <<parse_process_element(ts, p).val>>, flows |-> <<>>,
             pos |-> parse_process_element(ts, p).pos]
      [] FirstSuccess(ts, p) = "flow" ->
            [elements |-> <<>>, flows |-> <<parse_flow(ts, p).val>>, pos |-> parse_flow(ts, p).pos]
      [] FirstSuccess(ts, p) = "recovered_element" ->
            [elements |-> <<recover_process_element(ts, p).val>>, flows |-> <<>>,
             pos |-> recover_process_element(ts, p).pos]
      [] FirstSuccess(ts, p) = "recovered_flow" ->
            [elements |-> <<>>, flows |-> <<recover_flow(ts, p).val>>,
             pos |-> recover_flow(ts, p).pos]
      [] OTHER -> [elements |-> <<>>, flows |-> <<>>, pos |-> p + 1]

\* a pass of the body loop takes what the first successful attempt at the cursor of
\* its start obtained; when none succeeds it records the two diagnostics for the
\* token at that cursor and passes over that one token
C17_StepBody ==
    (pc = "body" /\ ~BodyDone(tokens, position)) =>
        /\ lastPath' = FirstSuccess(tokens, position)
        /\ process'.elements = process.elements \o Obtained(tokens, position).elements
        /\ process'.flows = process.flows \o Obtained(tokens, position).flows
        /\ position' = skip_whitespace_and_comments(tokens, Obtained(tokens, position).pos)
        /\ FirstSuccess(tokens, position) = "skipped" =>
              recovery' = recovery \o
                 <<ParseError(Msg("Cannot recover from token", current_token(tokens, position).text),
                              current_span(tokens, position), "Error"),
                   ParseError(Msg("Skipping unexpected token", current_token(tokens, position).text),
                              current_span(tokens, position), "Warning")>>

\* C17: in each iteration of the process-body loop of parse_with_recovery the
\* element parse, the flow parse, recover_process_element and recover_flow are
\* attempted in that order, each from the cursor position of the iteration's start,
\* stopping at the first success; when all four fail, exactly one Error 'Cannot
\* recover from token' and exactly one Warning 'Skipping unexpected token' are
\* recorded for that token and the cursor is moved to exactly one token past the
\* iteration's start position before trivia is skipped.
C17_AttemptOrder == [][C17_StepBody]_vars

\* a pass in which all four attempts failed after the flow parse had read beyond the
\* token the pass began at: the last two diagnostics are the Error and the Warning
C17_Witness ==
    /\ pc = "body"
    /\ lastPath = "skipped"
    /\ Len(recovery) >= 2
    /\ recovery[Len(recovery) - 1].message.text = "Cannot recover from token"
    /\ recovery[Len(recovery) - 1].severity = "Error"
    /\ recovery[Len(recovery)].message.text = "Skipping unexpected token"
    /\ recovery[Len(recovery)].severity = "Warning"
    /\ \E p \in 0..(Len(tokens) - 1) :
          /\ recovery[Len(recovery)].span = current_span(tokens, p)
          /\ ~parse_flow(tokens, p).ok
          /\ parse_flow(tokens, p).pos > p
          /\ FirstSuccess(tokens, p) = "skipped"


(***************************************************************************)
(* find_sync_point called on its own                                       *)
(***************************************************************************)
\* one call of ErrorRecovery::find_sync_point with start_pos = position; the function
\* reads the tokens and returns a position, it moves no cursor itself
FindSyncPoint ==
    /\ pc = "find_sync_point"
    /\ outcome' = Some(find_sync_point(tokens, position))
    /\ entered' = position
    /\ pc' = "returned"
    /\ UNCHANGED <<written, tokens, position, document, recovery, process, iters, lastPath,
                   returnedDocuments>>
    /\ UNCHANGED besideParser

MaxSync == 3

SyncTokens == {tkStart, tkProcess, tkRightBrace, Ident(<<"A">>), tkNewline}

\* every sequence of one to n tokens, with every start position up to its length
SyncInputs(n) ==
    {[written |-> [family |-> "sync"], tokens |-> ts, position |-> p] :
        ts \in SeqsUpTo(SyncTokens, n) \ {<<>>}, p \in 0..n}

InitSync ==
    /\ UnitInit(SyncInputs(MaxSync), "find_sync_point")
    /\ position <= Len(tokens)

SpecSync == InitSync /\ [][FindSyncPoint]_vars

(***************************************************************************)
(* C18  find_sync_point and the position it was given                      *)
(***************************************************************************)
\* C18: for every token sequence and every start position p smaller than the
\* token count, find_sync_point(tokens, p) returns a position strictly greater
\* than p.
C18_SyncAdvances ==
    (pc = "returned" /\ written.family = "sync" /\ entered < Len(tokens)) => outcome[1] > entered


(***************************************************************************)
(* Attribute lists that raise a parse error                                *)
(***************************************************************************)
\* how an attribute list is written: well-formed, with a value that is no number
\* (`30x`), without `=`, or without `)`
Faults == {"none", "value", "equals", "paren"}

FaultyPair(fault) ==
    CASE fault = "value" -> <<Ident(<<"k">>), tkEquals, Tk("NumberLiteral", <<"3", "0", "x">>)>>
      [] fault = "equals" -> <<Ident(<<"k">>), Tk("NumberLiteral", <<"3">>)>>
      [] OTHER -> <<Ident(<<"k">>), tkEquals, Tk("NumberLiteral", <<"3">>)>>

\* `(` [a=1 ,] <pair> [`)`]
FaultyList(fault, led) ==
    <<tkLeftParen>>
    \o (IF led THEN <<Ident(<<"a">>), tkEquals, Tk("NumberLiteral", <<"1">>), tkComma>> ELSE <<>>)
    \o FaultyPair(fault)
    \o (IF fault = "paren" THEN <<>> ELSE <<tkRightParen>>)

\* what carries the attribute list: the process header or an element of the body
Carriers ==
    {[name |-> "header", head |-> <<>>, tail |-> <<>>],
     [name |-> "task", head |-> <<tkTask, Ident(<<"A">>)>>, tail |-> <<>>],
     [name |-> "start", head |-> <<tkStart>>, tail |-> <<>>],
     [name |-> "end", head |-> <<tkEnd>>, tail |-> <<>>],
     [name |-> "subprocess", head |-> <<tkSubprocess, Ident(<<"S">>)>>,
      tail |-> <<tkLeftBrace, tkRightBrace>>]}

\* the tokens of `process P [list] { [start] [carrier list] [end] }` behind an import
\* line or none, and the index of the token the list begins at
MalformedTokens(c, fault, led, before, after) ==
    IF c.name = "header"
    THEN <<tkProcess, Ident(<<"P">>)>> \o FaultyList(fault, led) \o <<tkLeftBrace>>
         \o before \o after \o <<tkRightBrace, Eof>>
    ELSE <<tkProcess, Ident(<<"P">>), tkLeftBrace>> \o before \o c.head
         \o FaultyList(fault, led) \o c.tail \o after \o <<tkRightBrace, Eof>>

ListAt(c, before, imported) ==
    Len(ImportLine(imported)) + (IF c.name = "header" THEN 2 ELSE 3 + Len(before) + Len(c.head))

MalformedInputs(faults) ==
    {[written |-> [family |-> "malformed", carrier |-> c.name, fault |-> fault,
                   at |-> ListAt(c, before, imported)],
      tokens |-> ImportLine(imported) \o MalformedTokens(c, fault, led, before, after)] :
        c \in Carriers, fault \in faults, led \in BOOLEAN, imported \in BOOLEAN,
        before \in {<<>>, <<tkStart>>}, after \in {<<>>, <<tkEnd>>}}

InitMalformed == ParserInit(MalformedInputs(Faults))

SpecMalformed == InitMalformed /\ [][Next]_vars

(***************************************************************************)
(* C19  Parse errors of attribute lists and the diagnostic list            *)
(***************************************************************************)
\* C19: every parse-level error raised while parsing a statement is converted into
\* a recorded diagnostic: when the attribute list of a process header or of an
\* element in a process body raises InvalidAttributeValue (numeric text such as
\* `30x`) or UnexpectedToken (missing `=` or `)`), Document.errors returned by
\* parse_with_recovery contains at least one diagnostic for that statement.
C19_AttributeErrorsRecorded ==
    (/\ pc = "done"
     /\ written.family = "malformed"
     /\ ~parse_attributes(tokens, written.at).ok
     /\ parse_attributes(tokens, written.at).err.kind \in {"InvalidAttributeValue", "UnexpectedToken"})
        => document.errors # <<>>


(***************************************************************************)
(* Documents with a pool that holds lanes                                  *)
(* The span of the j-th element of the k-th lane is <<0, k, j>>.           *)
(***************************************************************************)
MaxLane == 3

LaneAt(k, body) ==
    [name |-> <<"M">>, span |-> <<0, k>>,
     elements |-> [j \in 1..Len(body) |-> [body[j] EXCEPT !.span = <<0, k, j>>]]]

\* ProcessElement::Pool with its lanes, its own elements and no flows
PoolOf(lanes, elements) ==
    [type |-> "Pool", name |-> <<"L">>, lanes |-> lanes, elements |-> elements, flows |-> <<>>,
     span |-> <<>>]

\* one process whose pool holds one or two lanes of up to n elements, with or without an
\* element of its own, behind a start event or a task
LaneDocuments(n) ==
    {DocumentOf(<<ProcessAt(1, <<"P">>, <<first, PoolOf(<<LaneAt(1, body)>> \o more, own)>>, <<>>)>>) :
        first \in {StartEvent, TaskNamed(Id_T)},
        body \in SeqsUpTo({TaskNamed(Id_T), TaskNamed(Id_X), StartEvent}, n),
        more \in {<<>>, <<LaneAt(2, <<TaskNamed(Id_T)>>)>>},
        own \in {<<>>, <<TaskNamed(Id_T)>>}}

InitLanes ==
    /\ valDocument \in LaneDocuments(MaxLane)
    /\ valErrors = <<>>
    /\ valProduced = <<>>
    /\ valResult = None
    /\ valPrevious = None
    /\ valCalls = 0
    /\ ParserIdle
    /\ LexerIdle
    /\ DiagnosticsIdle

SpecLanes == InitLanes /\ [][ValidatorNext]_vars

(***************************************************************************)
(* C20  Lane bodies as identifier scopes                                   *)
(***************************************************************************)
\* the lanes of the pools among the elements of the processes of doc
LanesOf(doc) ==
    UNION {UNION {{doc.processes[p].elements[i].lanes[k] :
                      k \in 1..Len(LanesOrNone(doc.processes[p].elements[i]))} :
                  i \in 1..Len(doc.processes[p].elements)} :
           p \in 1..Len(doc.processes)}

\* C20: each lane body is its own identifier scope in semantic validation: two
\* elements with the same id inside the same lane of a pool produce an Error
\* 'Duplicate node id' at the second occurrence.
C20_LaneScope ==
    valCalls > 0 =>
        \A lane \in LanesOf(valDocument) :
            \A i \in Repeats(lane.elements) :
                \E k \in 1..Len(Returned) :
                    Returned[k] = SyntaxError(Msg("Duplicate node id", IdOpt(lane.elements[i])[1]),
                                              lane.elements[i].span, "Error")


(***************************************************************************)
(* Documents with flows inside a subprocess or a pool                      *)
(* The span of the k-th flow of the container is <<0, k>>.                 *)
(***************************************************************************)
MaxOwned == 2

OwnedFlow(from, to) ==
    [from |-> from, to |-> to, flow_type |-> "Sequence", condition |-> None, span |-> <<>>]

OwnedFlows(fs) == [k \in 1..Len(fs) |-> [fs[k] EXCEPT !.span = <<0, k>>]]

\* ProcessElement::Subprocess and ProcessElement::Pool with their elements and flows
OwnersOf(body, fs) ==
    {[type |-> "Subprocess", id |-> <<"S">>, elements |-> body, flows |-> OwnedFlows(fs),
      span |-> <<>>],
     [type |-> "Pool", name |-> <<"L">>, lanes |-> <<>>, elements |-> body,
      flows |-> OwnedFlows(fs), span |-> <<>>]}

\* one process of a start event, a task T or X of its own, and a subprocess or pool that
\* holds up to one task and up to n flows between T, X, start and end
OwnedFlowDocuments(n) ==
    UNION {{DocumentOf(<<ProcessAt(1, <<"P">>, <<StartEvent, outer, owner>>, <<>>)>>) :
               owner \in OwnersOf(body, fs)} :
           outer \in {TaskNamed(Id_T), TaskNamed(Id_X)},
           body \in {<<>>, <<TaskNamed(Id_T)>>, <<TaskNamed(Id_T), TaskNamed(Id_X)>>},
           fs \in SeqsUpTo({OwnedFlow(f, t) : f \in FlowEnds, t \in FlowEnds}, n)}

InitOwnedFlows ==
    /\ valDocument \in OwnedFlowDocuments(MaxOwned)
    /\ valErrors = <<>>
    /\ valProduced = <<>>
    /\ valResult = None
    /\ valPrevious = None
    /\ valCalls = 0
    /\ ParserIdle
    /\ LexerIdle
    /\ DiagnosticsIdle

SpecOwnedFlows == InitOwnedFlows /\ [][ValidatorNext]_vars

(***************************************************************************)
(* C21  Flows of a subprocess or pool and the ids of its body              *)
(***************************************************************************)
\* the subprocesses and pools among the direct elements of the processes of doc
OwnersIn(doc) ==
    UNION {{doc.processes[p].elements[i] :
               i \in {j \in 1..Len(doc.processes[p].elements) :
                         doc.processes[p].elements[j].type \in {"Subprocess", "Pool"}}} :
           p \in 1..Len(doc.processes)}

\* the ids of the direct elements of a body
IdsOf(body) == {IdOpt(body[i])[1] : i \in {j \in 1..Len(body) : IdOpt(body[j]) # None}}

\* C21: flows are checked against their owning container: a flow in the flows list
\* of a subprocess or pool whose source (other than "start") or target (other than
\* "end") is not an id of a direct element of that same subprocess or pool body
\* produces an 'Unknown flow source' / 'Unknown flow target' Error from validate.
C21_OwnedFlowsChecked ==
    valCalls > 0 =>
        \A owner \in OwnersIn(valDocument) :
            \A k \in 1..Len(FlowsOrNone(owner)) :
                /\ (owner.flows[k].from # T_start /\ owner.flows[k].from \notin IdsOf(owner.elements))
                     => \E e \in 1..Len(Returned) :
                           Returned[e] = SyntaxError(Msg("Unknown flow source", owner.flows[k].from),
                                                     owner.flows[k].span, "Error")
                /\ (owner.flows[k].to # T_end /\ owner.flows[k].to \notin IdsOf(owner.elements))
                     => \E e \in 1..Len(Returned) :
                           Returned[e] = SyntaxError(Msg("Unknown flow target", owner.flows[k].to),
                                                     owner.flows[k].span, "Error")


(***************************************************************************)
(* Documents with flows of every kind                                      *)
(***************************************************************************)
MaxKinds == 2

FlowTypes == {"Sequence", "Message", "Default", "Association"}

KindForms ==
    {[from |-> f, to |-> t, flow_type |-> ft, condition |-> None, span |-> <<>>] :
        f \in FlowEnds, t \in {Id_T, T_end}, ft \in FlowTypes}

\* the element lists the flows are checked against: a task T with a gateway X, or a task
\* T alone
KindHosts ==
    {<<StartEvent, TaskNamed(Id_T), GatewayNamed(Id_X)>>, <<TaskNamed(Id_T)>>}

KindDocuments(n) ==
    {DocumentOf(<<ProcessAt(1, <<"P">>, es, fs)>>) :
        es \in KindHosts, fs \in SeqsUpTo(KindForms, n)}

InitFlowKinds ==
    /\ valDocument \in KindDocuments(MaxKinds)
    /\ valErrors = <<>>
    /\ valProduced = <<>>
    /\ valResult = None
    /\ valPrevious = None
    /\ valCalls = 0
    /\ ParserIdle
    /\ LexerIdle
    /\ DiagnosticsIdle

SpecFlowKinds == InitFlowKinds /\ [][ValidatorNext]_vars

(***************************************************************************)
(* C22  The kind-specific checks of validate_flow                          *)
(***************************************************************************)
DefaultArrowOf(flow) ==
    SyntaxError(Msg("The default arrow can only come from the gateway",
                    Arrow(flow.from, <<"=", ">">>, flow.to)),
                flow.span, "Error")

\* the source of the flow is neither an id of the direct elements nor "start"
StraySource(f) == f.flow.from \notin f.ids /\ f.flow.from # T_start

\* C22: validate_flow never emits a kind-specific diagnostic for a Sequence,
\* Message or Association flow, whatever its endpoints; for a Default flow it emits
\* the Error 'The default arrow can only come from the gateway' exactly when the
\* source is neither an id of the owning process's direct elements nor "start"
\* (whether or not the source is a gateway), and in that case the Error 'Unknown
\* flow source' is emitted for the same flow as well.
C22_KindChecks ==
    valCalls > 0 =>
        /\ Saying(Returned, "Invalid sequential arrow") = {}
        /\ Saying(Returned, "Invalid message arrow") = {}
        /\ Saying(Returned, "Invalid associative link") = {}
        /\ \A f \in FlowsOf(valDocument) :
              /\ (f.flow.flow_type = "Default" /\ StraySource(f))
                    => (DefaultArrowOf(f.flow) \in Saying(Returned, "The default arrow can only come from the gateway")
                        /\ UnknownSourceOf(f.flow) \in Saying(Returned, "Unknown flow source"))
              /\ (f.flow.flow_type = "Default" /\ ~StraySource(f))
                    => DefaultArrowOf(f.flow) \notin Saying(Returned, "The default arrow can only come from the gateway")
        /\ \A e \in Saying(Returned, "The default arrow can only come from the gateway") :
              \E f \in FlowsOf(valDocument) :
                  f.flow.flow_type = "Default" /\ StraySource(f) /\ e = DefaultArrowOf(f.flow)

\* a validated document holds a default flow from the gateway X and one from `end`, a
\* message flow and an association; only the flow from `end` has a kind-specific Error
C22_Witness ==
    /\ valCalls > 0
    /\ \E f \in FlowsOf(valDocument) :
          f.flow.flow_type = "Default" /\ f.flow.from = Id_X /\ Id_X \in f.ids
    /\ \E f \in FlowsOf(valDocument) :
          /\ f.flow.flow_type = "Default"
          /\ f.flow.from = T_end
          /\ DefaultArrowOf(f.flow) \in Saying(Returned, "The default arrow can only come from the gateway")


(***************************************************************************)
(* Gateways written inside a subprocess or a pool                          *)
(***************************************************************************)
MaxInner == 2

InnerCases(n) ==
    {[family |-> "inner_gateway", owner |-> o, kind |-> k, id |-> i, branches |-> bs] :
        o \in {"Subprocess", "Pool"}, k \in {"Xor", "And"}, i \in {None, Some(<<"G">>)},
        bs \in SeqsUpTo(BranchForms, n)}

\* `process P { subprocess S { <gateway> task B } }`, or the same with `pool S`, behind an
\* import line
InnerTokens(w) ==
    <<tkImport, tkString, tkNewline, tkProcess, Ident(<<"P">>), tkLeftBrace>>
    \o <<IF w.owner = "Subprocess" THEN tkSubprocess ELSE tkPool, Ident(<<"S">>), tkLeftBrace>>
    \o <<IF w.kind = "Xor" THEN tkXor ELSE tkAnd>>
    \o (IF w.id = None THEN <<>> ELSE <<Ident(w.id[1])>>)
    \o <<tkLeftBrace>>
    \o Flatten([n \in 1..Len(w.branches) |-> BranchTokens(w.branches[n])])
    \o <<tkRightBrace, tkTask, Ident(<<"B">>), tkRightBrace, tkRightBrace, Eof>>

InnerInputs(n) == {[written |-> w, tokens |-> InnerTokens(w)] : w \in InnerCases(n)}

InitInner == ParserInit(InnerInputs(MaxInner))

SpecInner == InitInner /\ [][Next]_vars

(***************************************************************************)
(* C23  A gateway with a default branch inside a container                 *)
(***************************************************************************)
\* the container holds the gateway with all its branches, and the task after it
OwnerHolds(w, owner) ==
    /\ owner.type = w.owner
    /\ Len(owner.elements) = 2
    /\ owner.elements[1].type = "Gateway"
    /\ owner.elements[1].id = w.id
    /\ Len(owner.elements[1].branches) = Len(w.branches)
    /\ \A n \in 1..Len(w.branches) :
          /\ owner.elements[1].branches[n].target = w.branches[n].target
          /\ owner.elements[1].branches[n].is_default = (w.branches[n].form = "default")
    /\ owner.elements[2].type = "Task"
    /\ owner.elements[2].id = <<"B">>

\* C23: the gateway grammar applies unchanged inside nested bodies: a well-formed
\* gateway that contains a `=> target` default branch and is written inside a
\* subprocess or pool body appears in that container's element list as a Gateway
\* element with all its branches, and the tokens after it in the container are
\* parsed as the container's following elements.
C23_InnerGateway ==
    (/\ pc = "done"
     /\ written.family = "inner_gateway"
     /\ \E n \in 1..Len(written.branches) : written.branches[n].form = "default")
        => /\ Len(document.processes) = 1
           /\ Len(document.processes[1].elements) = 1
           /\ OwnerHolds(written, document.processes[1].elements[1])


(***************************************************************************)
(* Token streams with one gateway block                                    *)
(***************************************************************************)
MaxBlock == 3

\* xor or and, with or without id, `?` and a line break before the `{`
BlockHeads ==
    {<<k>> \o i \o q \o nl \o <<tkLeftBrace>> :
        k \in {tkXor, tkAnd}, i \in {<<>>, <<Ident(<<"x">>)>>}, q \in {<<>>, <<tkQuestion>>},
        nl \in {<<>>, <<tkNewline>>}}

BlockTokenForms ==
    {tkLeftBracket, tkDefaultFlow, tkSequenceFlow, Ident(<<"x">>), tkLeftBrace, tkRightBrace}

\* a head, up to n tokens and the closing brace or nothing, closed by Eof
BlockInputs(n) ==
    {h \o b \o c \o <<Eof>> :
        h \in BlockHeads, b \in SeqsUpTo(BlockTokenForms, n), c \in {<<tkRightBrace>>, <<>>}}

InitBlocks ==
    /\ \E ts \in BlockInputs(MaxBlock) : ctxTokens = UnitSpans(ts)
    /\ similarity = [k \in Resembled |-> 60]
    /\ ctxErrors = <<>>
    /\ ctxResult = None
    /\ ctxCalls = 0
    /\ SuggestIdle
    /\ ParserIdle
    /\ LexerIdle
    /\ ValidatorIdle

SpecBlocks == InitBlocks /\ [][ContextNext]_vars

(***************************************************************************)
(* C24  When a gateway block is reported as unclosed                       *)
(***************************************************************************)
\* how many tokens of the kind lie at the indices from..to
CountKind(ts, from, to, kind) == Cardinality({i \in from..to : At(ts, i).kind = kind})

\* the brace depth behind token i of a block opened at index open
DepthAt(ts, open, i) ==
    1 + CountKind(ts, open + 1, i, "LeftBrace") - CountKind(ts, open + 1, i, "RightBrace")

\* the forward scan from the `{` at open reaches the end of the stream at a depth above 0
RunsOut(ts, open) == \A i \in (open + 1)..(Len(ts) - 1) : DepthAt(ts, open, i) > 0

\* the index of the `{` of the gateway at g, if one follows its head
OpenOf(ts, g) ==
    {o \in (g + 1)..(Len(ts) - 1) :
        /\ At(ts, o).kind = "LeftBrace"
        /\ \E j \in (g + 1)..o :
              /\ \A m \in (g + 1)..(j - 1) : At(ts, m).kind \in {"Identifier", "Question"}
              /\ \A m \in j..(o - 1) :
                    At(ts, m).kind \in {"Newline", "CarriageReturnNewline", "LineComment",
                                        "BlockComment"}
              /\ j - (g + 1) <= 2
              /\ (j - (g + 1) = 2 =>
                    At(ts, g + 1).kind = "Identifier" /\ At(ts, g + 2).kind = "Question")}

\* the call reported the gateway at g as unclosed
ReportedUnclosed(errs, ts, g) ==
    \E e \in 1..Len(errs) :
        /\ errs[e].variant = "SyntaxError"
        /\ errs[e].message.text = "gateway missing closing brace '}'"
        /\ errs[e].span.start = At(ts, g).span.start

\* C24: for an xor/and token followed (after an optional id, an optional `?`, and
\* newlines/comments) by `{`, validate_tokens reports 'gateway missing closing
\* brace' if and only if the forward scan reaches the end of the token stream
\* before the brace depth returns to 0; a block whose depth returns to 0 is never
\* flagged, whether it is empty or contains `[`, `=>` or `->` at depth 1.
C24_UnclosedBlocks ==
    ctxCalls > 0 =>
        \A g \in 0..(Len(ctxTokens) - 1) :
            (At(ctxTokens, g).kind \in {"Xor", "And"}) =>
                \A o \in OpenOf(ctxTokens, g) :
                    ReportedUnclosed(ctxResult[1], ctxTokens, g) <=> RunsOut(ctxTokens, o)


(***************************************************************************)
(* is_statement_start called on its own                                    *)
(***************************************************************************)
\* one call of ContextValidator::is_statement_start with index = position
IsStatementStart ==
    /\ pc = "is_statement_start"
    /\ outcome' = Some(is_statement_start(tokens, position))
    /\ entered' = position
    /\ pc' = "returned"
    /\ UNCHANGED <<written, tokens, position, document, recovery, process, iters, lastPath,
                   returnedDocuments>>
    /\ UNCHANGED besideParser

MaxBefore == 3

BeforeTokens ==
    {Ident(<<"x">>), tkString, Tk("NumberLiteral", <<"3">>), tkLeftBrace, tkRightBrace, tkNewline,
     tkCarriageReturnNewline, tkLeftParen}

\* up to n tokens before an identifier, and the index of any token of the stream
StartInputs(n) ==
    {[written |-> [family |-> "statement_start"], tokens |-> ts \o <<Ident(<<"x">>), Eof>>,
      position |-> p] :
        ts \in SeqsUpTo(BeforeTokens, n), p \in 0..n}

InitStart ==
    /\ UnitInit(StartInputs(MaxBefore), "is_statement_start")
    /\ position < Len(tokens) - 1

SpecStart == InitStart /\ [][IsStatementStart]_vars

(***************************************************************************)
(* C25  Where a statement starts                                           *)
(***************************************************************************)
\* C25: is_statement_start(tokens, i) is true when i = 0, and otherwise is decided
\* by the nearest token before i that is not an Identifier, StringLiteral or
\* NumberLiteral: true when that token is `{`, `}` or a line break (either newline
\* token the lexer produces, `\n` or `\r\n`), false when it is any other token.
C25_StatementStart ==
    (pc = "returned" /\ written.family = "statement_start") =>
        (outcome[1] <=> StatementStart(tokens, entered))


(***************************************************************************)
(* recover_task called on its own                                          *)
(***************************************************************************)
\* one call of ErrorRecovery::recover_task with start_pos = position: what it pushed goes
\* to recovery.errors, what it returned to outcome
RecoverTask ==
    /\ pc = "recover_task"
    /\ \E r \in {recover_task(tokens, position)} :
          /\ outcome' = Some(r)
          /\ recovery' = recovery \o r.errs
    /\ entered' = position
    /\ pc' = "returned"
    /\ UNCHANGED <<written, tokens, position, document, process, iters, lastPath,
                   returnedDocuments>>
    /\ UNCHANGED besideParser

MaxAfter == 4

tkAt == Tk("At", <<"@">>)

TaskHeads ==
    {Tk("Task", T_task), Tk("User", T_user), Tk("Service", T_service), Tk("Script", T_script)}

AfterTokens ==
    {Ident(<<"A">>), tkAt, tkLeftParen, tkRightParen, Tk("NumberLiteral", <<"3", "0", "x">>),
     tkStart, tkRightBrace}

\* a task keyword at index 0 or behind a `{`, and up to n tokens after it
TaskInputs(n) ==
    {[written |-> [family |-> "recover_task"], tokens |-> lead \o <<kw>> \o ts,
      position |-> Len(lead)] :
        lead \in {<<>>, <<tkLeftBrace>>}, kw \in TaskHeads, ts \in SeqsUpTo(AfterTokens, n)}

InitTask == UnitInit(TaskInputs(MaxAfter), "recover_task")

SpecTask == InitTask /\ [][RecoverTask]_vars

(***************************************************************************)
(* C26  What recover_task returns                                          *)
(***************************************************************************)
\* b is where the `@key` runs that begin at a end: every run begins with `@` and goes on
\* to the next `@`, `(`, `}` or element keyword
RunsEnd(ts, a, b) ==
    /\ a <= b
    /\ b <= Len(ts)
    /\ b > a => At(ts, a).kind = "At"
    /\ \A m \in (a + 1)..(b - 1) : At(ts, m).kind \notin (AttributeStoppers \ {"At"})
    /\ b < Len(ts) => At(ts, b).kind # "At"
    /\ (b > a /\ b < Len(ts)) => At(ts, b).kind \in AttributeStoppers

\* q is just behind the `)` that closes the `(` at b, or the end of the stream if none does
GroupEnd(ts, b, q) ==
    /\ b < q
    /\ q <= Len(ts)
    /\ \A m \in (b + 1)..(q - 1) :
          CountKind(ts, b, m - 1, "LeftParen") > CountKind(ts, b, m - 1, "RightParen")
    /\ \/ CountKind(ts, b, q - 1, "LeftParen") = CountKind(ts, b, q - 1, "RightParen")
       \/ q = Len(ts)

\* q lies after the `@key` runs that begin at a and after the parenthesised group behind
\* them, if there is one
AfterAttributes(ts, a, q) ==
    \E b \in a..Len(ts) :
        /\ RunsEnd(ts, a, b)
        /\ IF KindAt(ts, b, {"LeftParen"}) THEN GroupEnd(ts, b, q) ELSE q = b

\* C26: recover_task, called at a task/user/service/script token at index p,
\* always returns a Task of the matching kind with an empty attribute map: its id
\* is the text of the next token if that is an Identifier (no diagnostic),
\* otherwise the placeholder `Task_<p>` with exactly one Warning recorded; the
\* returned cursor is strictly greater than p and lies after the keyword, the id,
\* every `@key` run and at most one balanced parenthesised group, none of whose
\* values are parsed.
C26_RecoveredTask ==
    (pc = "returned" /\ written.family = "recover_task") =>
        /\ outcome[1].some
        /\ outcome[1].val.type = "Task"
        /\ outcome[1].val.task_type = TaskTypeOf(At(tokens, entered).kind)
        /\ outcome[1].val.attributes = EmptyMap
        /\ outcome[1].val.span = At(tokens, entered).span
        /\ outcome[1].pos > entered
        /\ IF KindAt(tokens, entered + 1, {"Identifier"})
           THEN /\ outcome[1].val.id = At(tokens, entered + 1).text
                /\ recovery = <<>>
                /\ AfterAttributes(tokens, entered + 2, outcome[1].pos)
           ELSE /\ outcome[1].val.id = <<"T", "a", "s", "k", "_">> \o <<ToString(entered)>>
                /\ Len(recovery) = 1
                /\ recovery[1].severity = "Warning"
                /\ recovery[1].message.text = "Missing task identifier, using default"
                /\ AfterAttributes(tokens, entered + 1, outcome[1].pos)

\* a task without id behind a `{`: the placeholder Task_1, one Warning, and the cursor
\* behind an `@` run and a closed group that holds the unparsable value 30x
C26_Witness ==
    /\ pc = "returned"
    /\ written.family = "recover_task"
    /\ entered = 1
    /\ outcome[1].val.id = <<"T", "a", "s", "k", "_", "1">>
    /\ Len(recovery) = 1
    /\ KindAt(tokens, 2, {"At"})
    /\ KindAt(tokens, 3, {"LeftParen"})
    /\ KindAt(tokens, 4, {"NumberLiteral"})
    /\ KindAt(tokens, 5, {"RightParen"})
    /\ outcome[1].pos = 6


(***************************************************************************)
(* recover_flow called on its own                                          *)
(***************************************************************************)
\* one call of ErrorRecovery::recover_flow with start_pos = position
RecoverFlow ==
    /\ pc = "recover_flow"
    /\ \E r \in {recover_flow(tokens, position)} :
          /\ outcome' = Some(r)
          /\ recovery' = recovery \o r.errs
    /\ entered' = position
    /\ pc' = "returned"
    /\ UNCHANGED <<written, tokens, position, document, process, iters, lastPath,
                   returnedDocuments>>
    /\ UNCHANGED besideParser

MaxFlowTokens == 4

FlowTokenForms ==
    {Ident(<<"A">>), tkSequenceFlow, tkDefaultFlow, tkEnd, tkLeftBracket, tkRightBracket, tkStart}

\* up to n tokens at index 0 or behind a `{`
FlowInputs(n) ==
    {[written |-> [family |-> "recover_flow"], tokens |-> lead \o ts \o <<Eof>>,
      position |-> Len(lead)] :
        lead \in {<<>>, <<tkLeftBrace>>}, ts \in SeqsUpTo(FlowTokenForms, n)}

InitFlow == UnitInit(FlowInputs(MaxFlowTokens), "recover_flow")

SpecFlow == InitFlow /\ [][RecoverFlow]_vars

(***************************************************************************)
(* C27  What recover_flow returns                                          *)
(***************************************************************************)
\* C27: recover_flow returns a flow if and only if the token at the start position
\* is an Identifier directly followed by a flow arrow, and otherwise returns
\* nothing without recording any diagnostic; when it returns a flow, the target is
\* the token after the arrow if that token is an identifier or the keyword `end`
\* (the same targets parse_flow accepts), and only when neither follows the arrow
\* is the placeholder `UnknownTarget_<pos>` used together with exactly one Error
\* 'Missing target in flow'.
C27_RecoveredFlow ==
    (pc = "returned" /\ written.family = "recover_flow") =>
        /\ outcome[1].some <=>
              (KindAt(tokens, entered, {"Identifier"}) /\ KindAt(tokens, entered + 1, FlowArrows))
        /\ ~outcome[1].some => recovery = <<>>
        /\ outcome[1].some =>
              IF KindAt(tokens, entered + 2, {"Identifier", "End"})
              THEN /\ outcome[1].val.to = At(tokens, entered + 2).text
                   /\ recovery = <<>>
              ELSE /\ outcome[1].val.to = TargetPlaceholder(entered + 2)
                   /\ Len(recovery) = 1
                   /\ recovery[1].severity = "Error"
                   /\ recovery[1].message.text = "Missing target in flow"


(***************************************************************************)
(* Parser::parse, the entry point without the recovery engine              *)
(***************************************************************************)
\* Parser::parse_process
parse_process(ts, p) ==
    ThenToken(ts,
        ThenBody(ts,
            ThenToken(ts,
                ThenAttributes(ts,
                    ThenIdentifier(ts,
                        ThenToken(ts, Ok(p, [span |-> current_span(ts, p)]), "Process"),
                        "name"),
                    "attributes"),
                "LeftBrace"),
            FALSE, TRUE),
        "RightBrace")

RECURSIVE recover_to_next_statement(_, _)
recover_to_next_statement(ts, p) ==
    IF is_at_end(ts, p) THEN p
    ELSE IF current_token(ts, p).kind \in {"Process", "Import", "RightBrace", "Eof"} THEN p
    ELSE recover_to_next_statement(ts, advance(ts, p))

\* the state of parse between two statements: the document so far and the cursor
Parsed(doc, p) == [doc |-> doc, pos |-> p]

\* one pass of a statement loop of parse: the statement joined to its list, or its error
\* recorded and the cursor moved to the next statement
StatementPass(ts, doc, list, r) ==
    IF r.ok
    THEN Parsed([doc EXCEPT ![list] = Append(@, r.val)], skip_whitespace_and_comments(ts, r.pos))
    ELSE Parsed(add_error(doc, to_string(r.err), current_span(ts, r.pos)),
                skip_whitespace_and_comments(ts, recover_to_next_statement(ts, r.pos)))

RECURSIVE PlainImports(_, _)
\* `while self.check_token(&TokenKind::Import)` of parse
PlainImports(ts, s) ==
    IF check_token(ts, s.pos, "Import")
    THEN PlainImports(ts, StatementPass(ts, s.doc, "imports", parse_import(ts, s.pos)))
    ELSE s

RECURSIVE PlainProcesses(_, _)
\* `while self.check_token(&TokenKind::Process)` of parse
PlainProcesses(ts, s) ==
    IF check_token(ts, s.pos, "Process")
    THEN PlainProcesses(ts, StatementPass(ts, s.doc, "processes", parse_process(ts, s.pos)))
    ELSE s

\* the closing check of parse
PlainFinish(ts, s) ==
    IF ~is_at_end(ts, s.pos) /\ ~check_token(ts, s.pos, "Eof")
    THEN add_error(s.doc, Msg("Unexpected token", current_token(ts, s.pos).text),
                   current_span(ts, s.pos))
    ELSE s.doc

parse(ts) ==
    PlainFinish(ts,
        PlainProcesses(ts,
            PlainImports(ts, Parsed(NewDocument, skip_whitespace_and_comments(ts, 0)))))

\* a second parser is built on the tokens of the finished parse_with_recovery call and
\* its parse is called
ParsePlain ==
    /\ pc = "done"
    /\ returnedDocuments = <<>>
    /\ returnedDocuments' = <<parse(tokens)>>
    /\ UNCHANGED <<written, tokens, position, pc, document, recovery, process, entered, iters,
                   lastPath, outcome>>
    /\ UNCHANGED besideParser

BothNext ==
    \/ ParseNext
    \/ ParsePlain

\* attribute lists with and without faults, and gateways inside containers
InitBoth == ParserInit(MalformedInputs(Faults) \cup InnerInputs(MaxInner))

SpecBoth == InitBoth /\ [][BothNext]_vars

(***************************************************************************)
(* C28  parse and parse_with_recovery on clean input                       *)
(***************************************************************************)
\* C28: the two public parse entry points agree on clean input: for every token
\* sequence on which parse_with_recovery returns an empty error list, parse
\* returns a Document with the same imports and the same processes (same elements,
\* branches, attributes and flows) and also an empty error list.
C28_EntryPointsAgree ==
    (pc = "done" /\ Len(returnedDocuments) = 1 /\ document.errors = <<>>) =>
        /\ returnedDocuments[1].imports = document.imports
        /\ returnedDocuments[1].processes = document.processes
        /\ returnedDocuments[1].errors = <<>>


(***************************************************************************)
(* The indices at which the recovery engine reads the token array          *)
(***************************************************************************)
\* a read behind `pos < tokens.len() &&`
Guarded(ts, p) == IF p < Len(ts) THEN {p} ELSE {}

\* the reads of a loop whose every test is `pos < tokens.len() && tokens[pos]...`,
\* started at p and left at q
GuardedScan(ts, p, q) == {i \in p..q : i < Len(ts)}

\* skip_malformed_attributes from p
SkipIndexed(ts, p) == GuardedScan(ts, p, skip_malformed_attributes(ts, p))

\* recover_task: tokens[pos] for the span and the kind, then the guarded reads
TaskIndexed(ts, start_pos) ==
    {start_pos} \cup Guarded(ts, start_pos + 1) \cup
    SkipIndexed(ts, IF KindAt(ts, start_pos + 1, {"Identifier"}) THEN start_pos + 2
                    ELSE start_pos + 1)

\* the arrow and the target of recover_single_branch
BranchRestIndexed(ts, head) ==
    IF ~head.some THEN {}
    ELSE Guarded(ts, head.pos) \cup
         (IF KindAt(ts, head.pos, {"SequenceFlow", "DefaultFlow"})
          THEN Guarded(ts, head.pos + 1) ELSE {})

\* recover_single_branch: tokens[pos] for the span and the kind without a test of pos
BranchIndexed(ts, start_pos) ==
    {start_pos} \cup
    (IF At(ts, start_pos).kind = "LeftBracket"
     THEN GuardedScan(ts, start_pos + 1, RecoverConditionText(ts, start_pos + 1, <<>>).pos)
     ELSE {}) \cup
    BranchRestIndexed(ts, RecoverBranchHead(ts, start_pos))

RECURSIVE BranchesIndexed(_, _)
RECURSIVE BranchesIndexedStep(_, _, _)

\* recover_gateway_branches: the loop test, then recover_single_branch at pos
BranchesIndexed(ts, p) ==
    IF p < Len(ts) /\ At(ts, p).kind # "RightBrace"
    THEN {p} \cup BranchIndexed(ts, p) \cup BranchesIndexedStep(ts, p, recover_single_branch(ts, p))
    ELSE Guarded(ts, p)

BranchesIndexedStep(ts, p, b) ==
    IF b.some THEN BranchesIndexed(ts, b.pos) ELSE BranchesIndexed(ts, p + 1)

\* recover_gateway: tokens[pos] for the span and the kind, then the guarded reads
GatewayIndexed(ts, start_pos) ==
    {start_pos} \cup Guarded(ts, start_pos + 1) \cup
    GuardedScan(ts, start_pos + 1, GatewayBlockStart(ts, start_pos)) \cup
    (IF KindAt(ts, GatewayBlockStart(ts, start_pos), {"LeftBrace"})
     THEN BranchesIndexed(ts, GatewayBlockStart(ts, start_pos) + 1)
     ELSE {})

\* recover_process_element
ElementIndexed(ts, start_pos) ==
    IF start_pos >= Len(ts) THEN {}
    ELSE {start_pos} \cup
         (CASE At(ts, start_pos).kind \in TaskKeywords -> TaskIndexed(ts, start_pos)
            [] At(ts, start_pos).kind \in {"Xor", "And"} -> GatewayIndexed(ts, start_pos)
            [] OTHER -> {})

\* recover_flow behind its two early returns: tokens[start_pos].span is read without
\* a test of start_pos
FlowIndexedRest(ts, start_pos, target) ==
    {start_pos} \cup Guarded(ts, start_pos + 2) \cup Guarded(ts, target.pos) \cup
    (IF KindAt(ts, target.pos, {"LeftBracket"})
     THEN GuardedScan(ts, target.pos + 1, RecoverConditionText(ts, target.pos + 1, <<>>).pos)
     ELSE {})

\* recover_flow
FlowIndexed(ts, start_pos) ==
    Guarded(ts, start_pos) \cup
    (IF KindAt(ts, start_pos, {"Identifier"}) THEN Guarded(ts, start_pos + 1) ELSE {}) \cup
    (IF KindAt(ts, start_pos, {"Identifier"}) /\ KindAt(ts, start_pos + 1, FlowArrows)
     THEN FlowIndexedRest(ts, start_pos, RecoverFlowTarget(ts, start_pos, start_pos + 2))
     ELSE {})

\* find_sync_point from p
SyncIndexed(ts, p) == GuardedScan(ts, p, find_sync_point(ts, p))

\* the recovery arm of one pass of the body loop from cursor p
BodyIndexed(ts, p) ==
    IF parse_process_element(ts, p).ok \/ parse_flow(ts, p).ok THEN {}
    ELSE ElementIndexed(ts, p) \cup
         (IF recover_process_element(ts, p).some THEN {} ELSE FlowIndexed(ts, p))

\* the error arm of a document-level loop whose statement parse returned r
ArmIndexed(ts, r) == IF r.ok THEN {} ELSE SyncIndexed(ts, r.pos)

\* the reads of the recovery engine in the step parse_with_recovery takes next
NextIndexed ==
    CASE pc = "imports" /\ check_token(tokens, position, "Import") ->
            ArmIndexed(tokens, parse_import(tokens, position))
      [] pc = "processes" /\ check_token(tokens, position, "Process") ->
            ArmIndexed(tokens, ProcessHeader(tokens, position))
      [] pc = "body" /\ ~BodyDone(tokens, position) -> BodyIndexed(tokens, position)
      [] OTHER -> {}

MaxRange == 3

RangeHeaders ==
    {<<tkProcess, Ident(<<"P">>), tkLeftBrace>>, <<tkImport, Ident(<<"x">>)>>,
     <<tkProcess, tkLeftBrace>>}

RangeTokens ==
    {tkTask, Ident(<<"A">>), tkDefaultFlow, tkXor, tkLeftBrace, tkRightBrace, tkLeftBracket,
     Tk("At", <<"@">>)}

\* no token at all, and up to n tokens that send the parser into the recovery engine
\* after a header that parses or fails, with and without the closing Eof
RangeInputs(n) ==
    {[written |-> [family |-> "range"], tokens |-> <<>>]} \cup
    {[written |-> [family |-> "range"], tokens |-> h \o b \o e] :
        h \in RangeHeaders, b \in Concats({<<t>> : t \in RangeTokens}, n),
        e \in {<<Eof>>, <<>>}}

InitRange == ParserInit(RangeInputs(MaxRange))

SpecRange == InitRange /\ [][ParseNext]_vars

(***************************************************************************)
(* C29  the cursor and the recovery engine stay inside the token array     *)
(***************************************************************************)
\* C29: throughout parse_with_recovery, for every token sequence (an empty one and
\* one without a trailing Eof token included), the cursor stays within
\* 0..=token count, and every direct index into the token array made by the
\* recovery engine is strictly below the token count.
C29_InRange ==
    /\ position \in 0..Len(tokens)
    /\ \A i \in NextIndexed : i \in 0..(Len(tokens) - 1)

\* a gateway was rebuilt by the recovery engine up to the last token of a stream that
\* has no Eof token
C29_Witness ==
    /\ pc = "body"
    /\ lastPath = "recovered_element"
    /\ position = Len(tokens)
    /\ At(tokens, Len(tokens) - 1).kind = "LeftBracket"
    /\ \E i \in 0..(Len(tokens) - 1) : At(tokens, i).kind = "Xor"


(***************************************************************************)
(* C30  the line and column of every token                                 *)
(***************************************************************************)
\* the offsets below off that hold a line feed
FeedsBefore(s, off) == {i \in 0..(off - 1) : CharAt(s, i) = "\n"}

\* 1 + the number of line feeds before off
LineOf(s, off) == 1 + Cardinality(FeedsBefore(s, off))

\* 1 + the number of characters between the last line feed before off and off
ColumnOf(s, off) ==
    1 + Cardinality({i \in 0..(off - 1) : \A f \in FeedsBefore(s, off) : f < i})

\* C30: every token returned by tokenize, the final Eof token included, carries the
\* 1-based line and column obtained by scanning all characters of the input that
\* precede the token's start offset (line = 1 + number of line feeds before it,
\* column = 1 + number of characters since the last line feed); for the Eof token
\* this is the position of the end of the input, also when the input contains
\* skipped spaces or tabs or a block comment spanning several lines.
C30_TokenPositions ==
    lexPc = "done" =>
        \A n \in 1..Len(lexed) :
            /\ lexed[n].span.line = LineOf(input, lexed[n].span.start)
            /\ lexed[n].span.column = ColumnOf(input, lexed[n].span.start)

====
